---- MODULE Spec2Model ----
(***************************************************************************)
(* A model of the coding agent's session controller (src/src/gemini.py),   *)
(* its deduplicated queue of function calls, the tool dispatcher           *)
(* (src/src/tools.py) and the file tracker (src/src/file_tracker.py).      *)
(*                                                                         *)
(* Conventions.  A Python value that may be None is a sequence of length   *)
(* at most one: <<>> is None and <<v>> is v.  A file's content is a        *)
(* sequence of one-character strings; "CR" and "LF" stand for the carriage *)
(* return and the line feed, "XFF" for a byte that is not valid UTF-8.     *)
(* A Python dict is the sequence of its items in insertion order.          *)
(***************************************************************************)
EXTENDS Integers, Sequences, FiniteSets, TLC

VARIABLES
    _current_state,         \* GeminiAgent._current_state
    _deque,                 \* FunctionCallsQueue._deque
    _set,                   \* FunctionCallsQueue._set
    _user_actions_context,  \* GeminiAgent._user_actions_context
    _files,                 \* FileTracker._files, in insertion order
    disk,                   \* the workspace: path -> file
    hashseed,               \* this process's hash(): the tuples it makes collide
    crashed,                \* an exception left GeminiAgent.start
    orig,                   \* history: path -> the file it was when first tracked
    edited,                 \* history: paths with a successful, unsettled edit
    alone,                  \* history: tracked paths, no other path used since
    last,                   \* history: what the last step did
    _running,               \* Spinner._running, of the spinner of the operation
    _thread,                \* Spinner._thread: None, or where the thread is in _spin
    pc,                     \* where the caller is in spin / spin_context
    wrapped,                \* the wrapped operation: its wrapper, how its body ended
    frames,                 \* frames that _spin has written for the operation
    input_lines,            \* _prompt_agent: the lines read so far
    reading,                \* _prompt_agent: where the handler is in its input loop
    warned                  \* _prompt_agent: "Max input size reached" was printed

\* The spinner and the operation it wraps.
spinner == << _running, _thread, pc, wrapped, frames >>

\* The input loop of _prompt_agent.
reader == << input_lines, reading, warned >>

vars == << _current_state, _deque, _set, _user_actions_context, _files, disk,
           hashseed, crashed, orig, edited, alone, last, spinner, reader >>

(***************************************************************************)
(* Bounds of the model.                                                    *)
(***************************************************************************)
\* Longest file content, in characters, that an append may produce.
MaxLen == 2
\* Most function calls in one reply of the model.
MaxBatch == 2
\* Most frames of the spinner that are counted for one operation.
MaxFrames == 2

\* The iterations of the input loop of _prompt_agent: range(100).
MaxInputLines == 100

(***************************************************************************)
(* Files and text.                                                         *)
(***************************************************************************)
Absent == [exists |-> FALSE, data |-> <<>>]
File(data) == [exists |-> TRUE, data |-> data]

\* os.linesep on the platforms the agent runs on.
linesep == <<"LF">>

\* bytes.decode("utf-8") succeeds.
Decodable(data) == \A i \in 1..Len(data) : data[i] # "XFF"

\* Reading in text mode (newline=None): "\r\n" and "\r" become "\n".
RECURSIVE UniversalNewlines(_)
UniversalNewlines(data) ==
    IF data = <<>> THEN <<>>
    ELSE IF Head(data) = "CR"
         THEN IF Len(data) >= 2 /\ data[2] = "LF"
              THEN <<"LF">> \o UniversalNewlines(SubSeq(data, 3, Len(data)))
              ELSE <<"LF">> \o UniversalNewlines(Tail(data))
         ELSE <<Head(data)>> \o UniversalNewlines(Tail(data))

\* Writing in text mode (newline=None): "\n" becomes os.linesep.
RECURSIVE TextWrite(_)
TextWrite(text) ==
    IF text = <<>> THEN <<>>
    ELSE (IF Head(text) = "LF" THEN linesep ELSE <<Head(text)>>)
         \o TextWrite(Tail(text))

IsPrefix(s, t) == Len(s) <= Len(t) /\ SubSeq(t, 1, Len(s)) = s

\* str.count(sub) for a non-empty sub: non-overlapping occurrences, leftmost first.
RECURSIVE count(_, _)
count(s, sub) ==
    IF Len(s) < Len(sub) THEN 0
    ELSE IF IsPrefix(sub, s)
         THEN 1 + count(SubSeq(s, Len(sub) + 1, Len(s)), sub)
         ELSE count(Tail(s), sub)

\* str.replace(old, new) for a non-empty old.
RECURSIVE replace(_, _, _)
replace(s, old, new) ==
    IF Len(s) < Len(old) THEN s
    ELSE IF IsPrefix(old, s)
         THEN new \o replace(SubSeq(s, Len(old) + 1, Len(s)), old, new)
         ELSE <<Head(s)>> \o replace(Tail(s), old, new)

(***************************************************************************)
(* Exceptions and results.  An operation on the tracker or the workspace   *)
(* takes the pair S = [files, disk] and returns the pair after it, its     *)
(* return value and the exception it raised, if any.                       *)
(***************************************************************************)
Exc(type, msg) == << [type |-> type, msg |-> msg] >>
Res(files, dsk, ret, exc) == [files |-> files, disk |-> dsk, ret |-> ret, exc |-> exc]

NoBackup == "None"

\* The index of path among the keys of the dict, 0 if it is no key.
KeyIndex(files, path) ==
    IF \E i \in 1..Len(files) : files[i].path = path
    THEN CHOOSE i \in 1..Len(files) : files[i].path = path
    ELSE 0

\* del files[path]
DelKey(files, path) ==
    LET i == KeyIndex(files, path)
    IN  SubSeq(files, 1, i - 1) \o SubSeq(files, i + 1, Len(files))

tracked_files(files) == [i \in 1..Len(files) |-> files[i].path]
\* has_edits as it would be with the comparison the wrong way round.
has_edits_inverted(files) == files = <<>>
\* has_edits as it would be if it tested that there is a dict, not that the
\* dict has keys.
has_edits_always(files) == files \in Seq([path : STRING, backup_file_path : STRING])
has_edits(files) == files # <<>>
TrackedSet(files) == {files[i].path : i \in 1..Len(files)}
BackupOf(files, path) == files[KeyIndex(files, path)].backup_file_path

\* The hidden sibling that holds the backup of a file.
backup_path(path) == "." \o path \o ".bak"

(***************************************************************************)
(* FileTracker                                                             *)
(***************************************************************************)
\* track_file as it would be with the entry registered before the copy.
track_file_registering_first(S, path) ==
    IF KeyIndex(S.files, path) # 0
    THEN Res(S.files, S.disk, <<FALSE>>, <<>>)
    ELSE IF S.disk[path].exists
         THEN LET backup == backup_path(path)
                  files == Append(S.files, [path |-> path, backup_file_path |-> backup])
              IN  IF ~Decodable(S.disk[path].data)
                  THEN Res(files, [S.disk EXCEPT ![backup] = File(<<>>)],
                           <<>>, Exc("UnicodeDecodeError", "invalid start byte"))
                  ELSE Res(files,
                           [S.disk EXCEPT ![backup] =
                               File(TextWrite(UniversalNewlines(S.disk[path].data)))],
                           <<TRUE>>, <<>>)
         ELSE Res(Append(S.files, [path |-> path, backup_file_path |-> NoBackup]),
                  S.disk, <<TRUE>>, <<>>)

track_file(S, path) ==
    IF KeyIndex(S.files, path) # 0
    THEN Res(S.files, S.disk, <<FALSE>>, <<>>)
    ELSE IF S.disk[path].exists
         THEN LET backup == backup_path(path)
              IN  IF ~Decodable(S.disk[path].data)
                  \* open(backup, "w") has truncated the backup when read() raises
                  THEN Res(S.files, [S.disk EXCEPT ![backup] = File(<<>>)],
                           <<>>, Exc("UnicodeDecodeError", "invalid start byte"))
                  ELSE Res(Append(S.files, [path |-> path, backup_file_path |-> backup]),
                           [S.disk EXCEPT ![backup] =
                               File(TextWrite(UniversalNewlines(S.disk[path].data)))],
                           <<TRUE>>, <<>>)
         ELSE Res(Append(S.files, [path |-> path, backup_file_path |-> NoBackup]),
                  S.disk, <<TRUE>>, <<>>)

\* untrack_file as it would be without the os.remove of the backup.
untrack_file_keeping_backup(S, path) ==
    IF KeyIndex(S.files, path) = 0
    THEN Res(S.files, S.disk, <<>>, <<>>)
    ELSE Res(DelKey(S.files, path), S.disk, <<>>, <<>>)

untrack_file(S, path) ==
    IF KeyIndex(S.files, path) = 0
    THEN Res(S.files, S.disk, <<>>, <<>>)
    ELSE LET backup == BackupOf(S.files, path)
         IN  IF backup # NoBackup
             THEN IF S.disk[backup].exists
                  THEN Res(DelKey(S.files, path),
                           [S.disk EXCEPT ![backup] = Absent], <<>>, <<>>)
                  ELSE Res(S.files, S.disk, <<>>,
                           Exc("FileNotFoundError", "No such file or directory"))
             ELSE Res(DelKey(S.files, path), S.disk, <<>>, <<>>)

confirm_file(S, path) == untrack_file(S, path)

revert_file(S, path) ==
    IF KeyIndex(S.files, path) = 0
    THEN Res(S.files, S.disk, <<>>, Exc("KeyError", path))
    ELSE LET backup == BackupOf(S.files, path)
         IN  IF backup # NoBackup
             THEN IF ~S.disk[backup].exists
                  THEN Res(S.files, S.disk, <<>>,
                           Exc("FileNotFoundError", "No such file or directory"))
                  ELSE IF ~Decodable(S.disk[backup].data)
                       \* open(path, "w") has truncated the file when read() raises
                       THEN Res(S.files, [S.disk EXCEPT ![path] = File(<<>>)],
                                <<>>, Exc("UnicodeDecodeError", "invalid start byte"))
                       ELSE LET written == [S.disk EXCEPT ![path] =
                                    File(TextWrite(UniversalNewlines(S.disk[backup].data)))]
                            IN  Res(DelKey(S.files, path),
                                    [written EXCEPT ![backup] = Absent],
                                    <<"Reverted edits to " \o path>>, <<>>)
             ELSE IF ~S.disk[path].exists
                  THEN Res(S.files, S.disk, <<>>,
                           Exc("FileNotFoundError", "No such file or directory"))
                  ELSE Res(DelKey(S.files, path), [S.disk EXCEPT ![path] = Absent],
                           <<"Reverted edits to " \o path>>, <<>>)

\* The loop of confirm_all and of revert_all over to_process, a copy of the keys.
RECURSIVE confirm_each(_, _)
confirm_each(S, to_process) ==
    IF to_process = <<>> THEN Res(S.files, S.disk, <<>>, <<>>)
    ELSE LET r == confirm_file(S, Head(to_process))
         IN  IF r.exc # <<>> THEN r ELSE confirm_each(r, Tail(to_process))

confirm_all(S) == confirm_each(S, tracked_files(S.files))

RECURSIVE revert_each(_, _)
revert_each(S, to_process) ==
    IF to_process = <<>> THEN Res(S.files, S.disk, <<>>, <<>>)
    ELSE LET r == revert_file(S, Head(to_process))
         IN  IF r.exc # <<>> THEN r ELSE revert_each(r, Tail(to_process))

RECURSIVE join(_, _)
join(sep, strs) ==
    IF strs = <<>> THEN ""
    ELSE IF Len(strs) = 1 THEN strs[1]
    ELSE strs[1] \o sep \o join(sep, Tail(strs))

\* revert_all as it would be with its message made from the keys that are left
\* after the loop.
revert_all_naming_what_is_left(S) ==
    LET r == revert_each(S, tracked_files(S.files))
    IN  IF r.exc # <<>> THEN r
        ELSE Res(r.files, r.disk,
                 <<"Reverted edits to " \o join(", ", tracked_files(r.files))>>, <<>>)

revert_all(S) ==
    LET to_process == tracked_files(S.files)
        r == revert_each(S, to_process)
    IN  IF r.exc # <<>> THEN r
        ELSE Res(r.files, r.disk,
                 <<"Reverted edits to " \o join(", ", to_process)>>, <<>>)

\* file_diff reads both files in text mode; only whether it raises is modelled.
file_diff(S, path) ==
    LET backup == BackupOf(S.files, path)
    IN  IF ~S.disk[path].exists
        THEN Exc("FileNotFoundError", "No such file or directory")
        ELSE IF ~Decodable(S.disk[path].data)
        THEN Exc("UnicodeDecodeError", "invalid start byte")
        ELSE IF backup # NoBackup /\ ~S.disk[backup].exists
        THEN Exc("FileNotFoundError", "No such file or directory")
        ELSE IF backup # NoBackup /\ ~Decodable(S.disk[backup].data)
        THEN Exc("UnicodeDecodeError", "invalid start byte")
        ELSE <<>>

RECURSIVE print_each_diff(_, _)
print_each_diff(S, paths) ==
    IF paths = <<>> THEN <<>>
    ELSE IF file_diff(S, Head(paths)) # <<>> THEN file_diff(S, Head(paths))
    ELSE print_each_diff(S, Tail(paths))

print_all_file_diffs(S) == print_each_diff(S, tracked_files(S.files))

(***************************************************************************)
(* Tools (src/src/tools.py).  A call's arguments are a dict, the sequence  *)
(* of its <<key, value>> items.  inp holds what the outside world answers  *)
(* during the call: inp.answer is the user's reply to the confirmation     *)
(* prompt, inp.proc the outcome of the subprocess a tool runs.             *)
(***************************************************************************)
Keys(args) == {args[i][1] : i \in 1..Len(args)}
Get(args, key) == args[CHOOSE i \in 1..Len(args) : args[i][1] = key][2]

Aborted == Exc("AbortToolUseError", "")

_edit_file(S, path, old_str, new_str) ==
    IF old_str = new_str
    THEN Res(S.files, S.disk, <<>>,
             Exc("ValueError", "new_str must be different from old_str"))
    ELSE IF old_str = <<>>
    THEN Res(S.files,
             [S.disk EXCEPT ![path] = File(S.disk[path].data \o TextWrite(new_str))],
             <<"Success">>, <<>>)
    ELSE IF ~S.disk[path].exists
    THEN Res(S.files, S.disk, <<>>,
             Exc("FileNotFoundError", "No such file or directory"))
    ELSE IF ~Decodable(S.disk[path].data)
    THEN Res(S.files, S.disk, <<>>, Exc("UnicodeDecodeError", "invalid start byte"))
    ELSE LET file_contents == UniversalNewlines(S.disk[path].data)
             n == count(file_contents, old_str)
         IN  IF n = 0
             THEN Res(S.files, S.disk, <<>>,
                      Exc("ValueError", "no match for old_str in file " \o path))
             ELSE IF n > 1
             THEN Res(S.files, S.disk, <<>>,
                      Exc("ValueError", "old_str found several times in file "
                                        \o path \o ", must be unique"))
             ELSE Res(S.files,
                      [S.disk EXCEPT ![path] =
                          File(TextWrite(replace(file_contents, old_str, new_str)))],
                      <<"Success">>, <<>>)

\* edit_file as it would be without the untrack_file of its except clause.
edit_file_without_rollback(S, args, inp) ==
    LET path == Get(args, "path")
    IN  IF inp.answer # "yes" THEN Res(S.files, S.disk, <<>>, Aborted)
        ELSE LET t == track_file(S, path)
             IN  IF t.exc # <<>> THEN t
                 ELSE _edit_file(t, path, Get(args, "old_str"), Get(args, "new_str"))

\* edit_file as it would be with track_file called before the prompt.
edit_file_tracking_before_the_prompt(S, args, inp) ==
    LET path == Get(args, "path")
        t == track_file(S, path)
    IN  IF inp.answer # "yes" THEN Res(t.files, t.disk, <<>>, Aborted)
        ELSE IF t.exc # <<>> THEN t
        ELSE _edit_file(t, path, Get(args, "old_str"), Get(args, "new_str"))

edit_file(S, args, inp) ==
    LET path == Get(args, "path")
    IN  IF inp.answer # "yes" THEN Res(S.files, S.disk, <<>>, Aborted)
        ELSE LET t == track_file(S, path)
             IN  IF t.exc # <<>> THEN t
                 ELSE LET e == _edit_file(t, path, Get(args, "old_str"),
                                          Get(args, "new_str"))
                      IN  IF e.exc = <<>> THEN e
                          ELSE IF t.ret = <<TRUE>>
                          THEN LET u == untrack_file(e, path)
                               IN  Res(u.files, u.disk, <<>>,
                                       IF u.exc # <<>> THEN u.exc ELSE e.exc)
                          ELSE e

\* shell and code_search: the command's effect on the workspace is outside the model.
shell(S, args, inp) ==
    IF inp.answer # "yes" THEN Res(S.files, S.disk, <<>>, Aborted)
    ELSE IF inp.proc.stderr # ""
    THEN Res(S.files, S.disk, <<>>, Exc("RuntimeError", inp.proc.stderr))
    ELSE Res(S.files, S.disk, <<inp.proc.stdout>>, <<>>)

code_search(S, args, inp) == shell(S, args, inp)

read_text_file(S, args, inp) ==
    LET path == Get(args, "path")
    IN  IF inp.answer # "yes" THEN Res(S.files, S.disk, <<>>, Aborted)
        ELSE IF ~S.disk[path].exists
        THEN Res(S.files, S.disk, <<>>,
                 Exc("FileNotFoundError", "No such file or directory"))
        ELSE IF ~Decodable(S.disk[path].data)
        THEN Res(S.files, S.disk, <<>>,
                 Exc("UnicodeDecodeError", "invalid start byte"))
        ELSE Res(S.files, S.disk, <<"text of " \o path>>, <<>>)

read_binary_file(S, args, inp) ==
    LET path == Get(args, "path")
    IN  IF inp.answer # "yes" THEN Res(S.files, S.disk, <<>>, Aborted)
        ELSE IF ~S.disk[path].exists
        THEN Res(S.files, S.disk, <<>>,
                 Exc("FileNotFoundError", "No such file or directory"))
        ELSE Res(S.files, S.disk, <<"bytes of " \o path>>, <<>>)

\* list_files and list_directories: the listing itself is outside the model.
list_files(S, args, inp) ==
    IF inp.answer # "yes" THEN Res(S.files, S.disk, <<>>, Aborted)
    ELSE Res(S.files, S.disk, <<"listing">>, <<>>)

list_directories(S, args, inp) == list_files(S, args, inp)

\* ToolManager._tool_map: the registered names, with the parameters that have
\* no default value.
_tool_map ==
    [ read_text_file   |-> {"path"},
      read_binary_file |-> {"path"},
      list_files       |-> {},
      list_directories |-> {},
      shell            |-> {"args"},
      edit_file        |-> {"path", "old_str", "new_str"},
      code_search      |-> {"pattern"} ]

ToolBody(S, name, args, inp) ==
    CASE name = "read_text_file"   -> read_text_file(S, args, inp)
      [] name = "read_binary_file" -> read_binary_file(S, args, inp)
      [] name = "list_files"       -> list_files(S, args, inp)
      [] name = "list_directories" -> list_directories(S, args, inp)
      [] name = "shell"            -> shell(S, args, inp)
      [] name = "edit_file"        -> edit_file(S, args, inp)
      [] name = "code_search"      -> code_search(S, args, inp)

\* What the try block of call_tool does: the state after it, the tool's
\* return value and the exception that reached the except clauses; prompted
\* tells whether the confirmation prompt was shown.
Invoke(S, name, args, inp) ==
    IF name = "read_binary_file" /\ "path" \notin Keys(args)
    THEN [r |-> Res(S.files, S.disk, <<>>, Exc("KeyError", "path")), prompted |-> FALSE]
    ELSE IF name \notin DOMAIN _tool_map
    THEN [r |-> Res(S.files, S.disk, <<>>, Exc("KeyError", name)), prompted |-> FALSE]
    ELSE IF ~(_tool_map[name] \subseteq Keys(args))
    THEN [r |-> Res(S.files, S.disk, <<>>,
                    Exc("TypeError", "missing required positional argument")),
          prompted |-> FALSE]
    ELSE [r |-> ToolBody(S, name, args, inp), prompted |-> TRUE]

\* The classes of the exceptions above, all derived from Exception.
ExceptionClasses ==
    { "KeyError", "TypeError", "ValueError", "RuntimeError", "FileNotFoundError",
      "UnicodeDecodeError", "AbortToolUseError" }

\* The except clauses of call_tool as they would be without the last one,
\* "except Exception".
Caught_without_last_clause(exc) == exc[1].type \in {"KeyError", "AbortToolUseError"}

\* Whether one of the except clauses of call_tool catches the exception.
Caught(exc) ==
    \/ exc[1].type = "KeyError"
    \/ exc[1].type = "AbortToolUseError"
    \/ exc[1].type \in ExceptionClasses

\* The except clauses of call_tool as they would be without the one for
\* KeyError: the error is the text of the KeyError, the key.
ErrorOf_without_keyerror_clause(name, exc) ==
    IF exc = <<>> THEN <<>>
    ELSE IF exc[1].type = "AbortToolUseError" THEN <<"aborted">>
    ELSE <<exc[1].msg>>

\* The except clauses of call_tool as they would be without the one for
\* AbortToolUseError: the abort falls to "except Exception", and its text is empty.
ErrorOf_without_abort_clause(name, exc) ==
    IF exc = <<>> THEN <<>>
    ELSE IF exc[1].type = "KeyError"
    THEN <<"Function '" \o name \o "' is not supported">>
    ELSE <<exc[1].msg>>

ErrorOf(name, exc) ==
    IF exc = <<>> THEN <<>>
    ELSE IF exc[1].type = "KeyError"
    THEN <<"Function '" \o name \o "' is not supported">>
    ELSE IF exc[1].type = "AbortToolUseError" THEN <<"aborted">>
    ELSE <<exc[1].msg>>

call_tool(S, name, args, inp) ==
    LET v == Invoke(S, name, args, inp)
    IN  [ files    |-> v.r.files,
          disk     |-> v.r.disk,
          prompted |-> v.prompted,
          \* the tool went past its confirmation prompt
          ran      |-> v.prompted /\ inp.answer = "yes",
          \* the exception that leaves call_tool, if one does: no envelope
          \* is returned then
          raised   |-> IF v.r.exc # <<>> /\ ~Caught(v.r.exc) THEN v.r.exc ELSE <<>>,
          envelope |-> [ tool      |-> name,
                         result    |-> IF v.r.exc = <<>> THEN v.r.ret ELSE <<>>,
                         error     |-> ErrorOf(name, v.r.exc),
                         mime_type |-> IF name = "read_binary_file"
                                          /\ "path" \in Keys(args)
                                       THEN <<"application/octet-stream">>
                                       ELSE <<>> ] ]

(***************************************************************************)
(* FunctionCallsQueue (src/src/gemini.py).  The queue is the pair          *)
(* Q = [deque, set].                                                       *)
(***************************************************************************)
\* The parameter names of the tool declarations, in the order of Python's
\* string comparison.
ParamOrder == << "args", "case_sensitive", "dirpath", "file_type", "new_str",
                 "old_str", "path", "pattern" >>
Rank(key) == CHOOSE i \in 1..Len(ParamOrder) : ParamOrder[i] = key

RECURSIVE Insert(_, _)
Insert(item, items) ==
    IF items = <<>> THEN <<item>>
    ELSE IF Rank(item[1]) <= Rank(Head(items)[1]) THEN <<item>> \o items
    ELSE <<Head(items)>> \o Insert(item, Tail(items))

\* call.args.items() as it is, in insertion order, without sorted.
unsorted(items) == items

\* sorted(call.args.items()): the keys of a dict differ, so they decide the order.
RECURSIVE sorted(_)
sorted(items) ==
    IF items = <<>> THEN <<>> ELSE Insert(Head(items), sorted(Tail(items)))

\* The tuple that _hash_call hashes.
HashedTuple(call) == << call.name, sorted(call.args) >>


(***************************************************************************)
(* The function calls the model asks for, and the hash functions a process *)
(* may have.                                                               *)
(***************************************************************************)
Call(name, args) == [name |-> name, args |-> args]

EditCall(path, old_str, new_str) ==
    Call("edit_file", << <<"path", path>>, <<"old_str", old_str>>,
                         <<"new_str", new_str>> >>)

ShellLs == Call("shell", << <<"args", "ls -l">> >>)
ShellPwd == Call("shell", << <<"args", "pwd">> >>)
EditAppend == EditCall("a", <<>>, <<"w">>)
EditReplace == EditCall("a", <<"h">>, <<"w">>)
\* EditReplace with the items of its dict in another order: the same call.
EditReplaceReordered ==
    Call("edit_file", << <<"new_str", <<"w">>>>, <<"path", "a">>,
                         <<"old_str", <<"h">>>> >>)
\* An edit of the hidden sibling that backs a up.
EditBackup == EditCall(".a.bak", <<"h">>, <<"w">>)
Bogus == Call("bogus", <<>>)

\* The calls of the queue on its own, and those of a session.
QueueCalls == {ShellLs, ShellPwd, EditReplace, EditReplaceReordered}
SessionCalls == {ShellLs, EditAppend, EditBackup, Bogus}

\* The replies of the model: at most MaxBatch calls out of C, in any order,
\* repeats included.
Batches(C) == UNION {[1..n -> C] : n \in 0..MaxBatch}

\* The replies that name no call twice.  extend admits the first of two equal
\* calls only, so a reply that repeats a call leaves the queue as the same
\* reply without the repeat does.
Replies(C) == {b \in Batches(C) : \A i, j \in 1..Len(b) : b[i] = b[j] => i = j}

\* The tuples hash() may be applied to.
HashDomain ==
    {HashedTuple(c) : c \in QueueCalls \cup SessionCalls}
    \cup {<<c.name, c.args>> : c \in QueueCalls \cup SessionCalls}

RECURSIVE SetToSeq(_)
SetToSeq(T) ==
    IF T = {} THEN <<>> ELSE LET t == CHOOSE t \in T : TRUE
                             IN  <<t>> \o SetToSeq(T \ {t})
HashDomainSeq == SetToSeq(HashDomain)
Code(t) == CHOOSE i \in 1..Len(HashDomainSeq) : HashDomainSeq[i] = t

Pairs(T) == {K \in SUBSET T : Cardinality(K) = 2}

\* hash() is a 64-bit integer that changes from process to process
\* (PYTHONHASHSEED): equal tuples have equal hashes, and different tuples may
\* have.  The seed is modelled by the set of tuples that collide under it, all
\* on one integer; every other tuple has an integer of its own.
hash(t) == IF t \in hashseed THEN 0 ELSE Code(t)

_hash_call(call) == hash(HashedTuple(call))

RECURSIVE extend(_, _)
extend(Q, calls) ==
    IF calls = <<>> THEN Q
    ELSE LET call == Head(calls)
             call_hash == _hash_call(call)
         IN  IF call_hash \notin Q.set
             THEN extend([deque |-> Append(Q.deque, call),
                          set   |-> Q.set \cup {call_hash}], Tail(calls))
             ELSE extend(Q, Tail(calls))

\* pop as it would be with deque.pop() in place of deque.popleft().
pop_right(Q) ==
    LET call == Q.deque[Len(Q.deque)]
    IN  [deque |-> SubSeq(Q.deque, 1, Len(Q.deque) - 1),
         set |-> Q.set \ {_hash_call(call)}, call |-> call]

\* deque.popleft() raises on an empty deque: pop is used on a non-empty one.
pop(Q) ==
    LET call == Head(Q.deque)
    IN  [deque |-> Tail(Q.deque), set |-> Q.set \ {_hash_call(call)}, call |-> call]

empty_always(Q) == TRUE

empty(Q) == Cardinality(Q.set) = 0

\* discard as it would be without the replacement of the set.
discard_deque_only(Q) == [deque |-> <<>>, set |-> Q.set]

\* discard as it would be if it cleared nothing.
discard_nothing(Q) == Q

discard(Q) == [deque |-> <<>>, set |-> {}]


(***************************************************************************)
(* The workspace, and the state after construction.                        *)
(***************************************************************************)
\* The files of the workspace directory: a, the hidden sibling that backs a
\* up, and the sibling that backs that one up.
DiskPaths == {"a", ".a.bak", "..a.bak.bak"}
\* The paths the model asks to edit.
EditPaths == {"a", ".a.bak"}

\* What the history variable last says of a step.
Step(op) ==
    [ op |-> op, path |-> "", call |-> <<>>, envelope |-> <<>>, sent |-> <<>>,
      ran |-> FALSE, prompted |-> FALSE, answer |-> "", exc |-> <<>>,
      discarded |-> <<>> ]

Constructed ==
    /\ _current_state = "START"
    /\ _deque = <<>>
    /\ _set = {}
    /\ _user_actions_context = <<>>
    /\ _files = <<>>
    /\ crashed = FALSE
    /\ orig = [p \in DiskPaths |-> <<>>]
    /\ edited = {}
    /\ alone = {}
    /\ last = Step("init")
    /\ _running = FALSE
    /\ _thread = "None"
    /\ pc = "idle"
    /\ wrapped = <<>>
    /\ frames = 0
    /\ input_lines = <<>>
    /\ reading = "idle"
    /\ warned = FALSE

FitsBound(dsk) == \A p \in DiskPaths : Len(dsk[p].data) <= MaxLen

\* The history of the tracker over a step from S to T: a path that becomes
\* tracked records the file it was, a path that is settled forgets it.
OrigAfter(S, T) ==
    [p \in DiskPaths |->
        IF p \in TrackedSet(T.files)
        THEN IF p \in TrackedSet(S.files) THEN orig[p] ELSE <<S.disk[p]>>
        ELSE <<>>]

\* The tracked paths that no operation on another path has come after, when
\* the step from S to T is an operation on the paths of used.
AloneAfter(S, T, used) ==
    {p \in TrackedSet(T.files) :
        /\ used = {p}
        /\ p \in alone \/ p \notin TrackedSet(S.files)}

(***************************************************************************)
(* SpecQueue: the queue on its own, under every sequence of its operations.*)
(***************************************************************************)
Queue == [deque |-> _deque, set |-> _set]

InitQueue ==
    /\ Constructed
    /\ disk = [p \in DiskPaths |-> Absent]
    /\ hashseed \in {{}} \cup Pairs({HashedTuple(c) : c \in QueueCalls})

QExtend ==
    \E calls \in Batches(QueueCalls) :
        LET Q == extend(Queue, calls)
        IN  /\ _deque' = Q.deque
            /\ _set' = Q.set
            /\ last' = [Step("extend") EXCEPT !.sent = calls]
            /\ UNCHANGED << _current_state, _user_actions_context, _files, disk,
                            hashseed, crashed, orig, edited, alone, spinner, reader >>

QPop ==
    /\ _deque # <<>>
    /\ LET Q == pop(Queue)
       IN  /\ _deque' = Q.deque
           /\ _set' = Q.set
           /\ last' = [Step("pop") EXCEPT !.call = <<Q.call>>]
    /\ UNCHANGED << _current_state, _user_actions_context, _files, disk,
                    hashseed, crashed, orig, edited, alone, spinner, reader >>

QDiscard ==
    /\ LET Q == discard(Queue)
       IN  /\ _deque' = Q.deque
           /\ _set' = Q.set
    /\ last' = Step("discard")
    /\ UNCHANGED << _current_state, _user_actions_context, _files, disk,
                    hashseed, crashed, orig, edited, alone, spinner, reader >>

NextQueue == QExtend \/ QPop \/ QDiscard

SpecQueue == InitQueue /\ [][NextQueue]_vars

(***************************************************************************)
(* SpecTracker: the file tracker as the session drives it, edit_file calls *)
(* through call_tool and the confirm and revert operations of the menus,   *)
(* on every workspace of TrackerDisks.  An exception that leaves a menu    *)
(* operation ends the process.                                             *)
(***************************************************************************)
Tracker == [files |-> _files, disk |-> disk]

TrackerDisks ==
    {[p \in DiskPaths |-> IF p = "a" THEN fa ELSE IF p = ".a.bak" THEN fb ELSE Absent] :
        fa \in {Absent, File(<<"h">>), File(<<"CR">>), File(<<"h", "CR">>),
               File(<<"XFF">>)},
        fb \in {Absent, File(<<"w">>)}}

\* The (old_str, new_str) pairs of the edits.
EditArgs == { << <<>>, <<"w">> >>, << <<"h">>, <<"w">> >>,
              << <<"w">>, <<"h">> >>, << <<"w">>, <<"w">> >> }

Answers == {"yes", "no"}
NoProc == [stdout |-> "", stderr |-> ""]

InitTracker ==
    /\ Constructed
    /\ disk \in TrackerDisks
    /\ hashseed = {}

\* The effect of one call of call_tool on the tracker, the workspace and the
\* history; c is the call and t what call_tool returned.
Dispatched(c, t) ==
    /\ _files' = t.files
    /\ disk' = t.disk
    /\ orig' = OrigAfter(Tracker, t)
    /\ edited' = IF c.name = "edit_file" /\ t.envelope.result = <<"Success">>
                 THEN edited \cup {Get(c.args, "path")}
                 ELSE edited
    /\ alone' = IF c.name = "edit_file" /\ t.ran
                THEN AloneAfter(Tracker, t, {Get(c.args, "path")})
                ELSE alone

TEditFile ==
    /\ ~crashed
    /\ \E path \in EditPaths, oldnew \in EditArgs, answer \in Answers :
          LET c == EditCall(path, oldnew[1], oldnew[2])
              inp == [answer |-> answer, proc |-> NoProc]
          IN  \E t \in {call_tool(Tracker, c.name, c.args, inp)} :
              /\ FitsBound(t.disk)
              /\ Dispatched(c, t)
              /\ last' = [Step("call_tool") EXCEPT
                            !.path = path, !.envelope = <<t.envelope>>,
                            !.ran = t.ran, !.prompted = t.prompted, !.answer = answer]
              /\ crashed' = (t.raised # <<>>)
    /\ UNCHANGED << _current_state, _deque, _set, _user_actions_context,
                    hashseed, spinner, reader >>

\* The effect of a confirm or revert operation that returned r.
Settled(op, path, r, settled) ==
    /\ _files' = r.files
    /\ disk' = r.disk
    /\ crashed' = (r.exc # <<>>)
    /\ orig' = OrigAfter(Tracker, r)
    /\ edited' = IF r.exc = <<>> THEN edited \ settled ELSE edited
    /\ alone' = AloneAfter(Tracker, r, settled)
    /\ last' = [Step(op) EXCEPT !.path = path, !.exc = r.exc]

TConfirmFile ==
    /\ ~crashed
    /\ \E path \in TrackedSet(_files) :
          \E r \in {confirm_file(Tracker, path)} : Settled("confirm_file", path, r, {path})
    /\ UNCHANGED << _current_state, _deque, _set, _user_actions_context,
                    hashseed, spinner, reader >>

TRevertFile ==
    /\ ~crashed
    /\ \E path \in TrackedSet(_files) :
          \E r \in {revert_file(Tracker, path)} : Settled("revert_file", path, r, {path})
    /\ UNCHANGED << _current_state, _deque, _set, _user_actions_context,
                    hashseed, spinner, reader >>

TConfirmAll ==
    /\ ~crashed
    /\ has_edits(_files)
    /\ \E r \in {confirm_all(Tracker)} : Settled("confirm_all", "", r, TrackedSet(_files))
    /\ UNCHANGED << _current_state, _deque, _set, _user_actions_context,
                    hashseed, spinner, reader >>

TRevertAll ==
    /\ ~crashed
    /\ has_edits(_files)
    /\ \E r \in {revert_all(Tracker)} : Settled("revert_all", "", r, TrackedSet(_files))
    /\ UNCHANGED << _current_state, _deque, _set, _user_actions_context,
                    hashseed, spinner, reader >>

NextTracker == TEditFile \/ TConfirmFile \/ TRevertFile \/ TConfirmAll \/ TRevertAll

SpecTracker == InitTracker /\ [][NextTracker]_vars

(***************************************************************************)
(* Spec: a session.  GeminiAgent.start runs the handler of the current     *)
(* state and follows the transition of the event it returns.  A handler    *)
(* that loops is one step for each turn of its loop; an exception that     *)
(* leaves a handler, or an event with no transition, ends the process.     *)
(***************************************************************************)
\* The table as it would be without the arc of NO_EDITS out of the review.
_transitions_without_review_no_edits ==
    [ START |-> [KICKOFF |-> "MAIN_MENU"],
      MAIN_MENU |-> [PROMPT_AGENT |-> "PROMPT_AGENT",
                     MANAGE_FILE_EDITS |-> "FILE_EDITS_MENU"],
      PROMPT_AGENT |-> [PROMPT_AGENT |-> "PROMPT_AGENT",
                        HAS_FUNCTION_CALLS |-> "USE_TOOL",
                        NO_FUNCTION_CALLS |-> "MAIN_MENU",
                        USER_EXITED |-> "END"],
      USE_TOOL |-> [FINISHED_USING_TOOL |-> "MAIN_MENU"],
      FILE_EDITS_MENU |-> [SHOW_FILE_EDITS |-> "SHOW_FILE_EDITS",
                           CONFIRM_EDITS_ALL |-> "CONFIRM_EDITS_ALL",
                           REVERT_EDITS_ALL |-> "REVERT_EDITS_ALL",
                           REVIEW_EDITS_FILE_BY_FILE |-> "REVIEW_EDITS_FILE_BY_FILE",
                           GO_TO_MAIN_MENU |-> "MAIN_MENU",
                           NO_EDITS |-> "MAIN_MENU"],
      SHOW_FILE_EDITS |-> [FINISHED_SHOWING_FILE_EDITS |-> "FILE_EDITS_MENU"],
      CONFIRM_EDITS_ALL |-> [FINISHED_CONFIRMING_FILE_EDITS |-> "FILE_EDITS_MENU"],
      REVERT_EDITS_ALL |-> [FINISHED_REVERTING_FILE_EDITS |-> "FILE_EDITS_MENU"],
      REVIEW_EDITS_FILE_BY_FILE |-> [GO_TO_FILE_EDITS_MENU |-> "FILE_EDITS_MENU"] ]

\* The table as it would be with the two arcs of the reply out of PROMPT_AGENT
\* taken one for the other.
_transitions_prompt_arcs_swapped ==
    [ START |-> [KICKOFF |-> "MAIN_MENU"],
      MAIN_MENU |-> [PROMPT_AGENT |-> "PROMPT_AGENT",
                     MANAGE_FILE_EDITS |-> "FILE_EDITS_MENU"],
      PROMPT_AGENT |-> [PROMPT_AGENT |-> "PROMPT_AGENT",
                        HAS_FUNCTION_CALLS |-> "MAIN_MENU",
                        NO_FUNCTION_CALLS |-> "USE_TOOL",
                        USER_EXITED |-> "END"],
      USE_TOOL |-> [FINISHED_USING_TOOL |-> "MAIN_MENU"],
      FILE_EDITS_MENU |-> [SHOW_FILE_EDITS |-> "SHOW_FILE_EDITS",
                           CONFIRM_EDITS_ALL |-> "CONFIRM_EDITS_ALL",
                           REVERT_EDITS_ALL |-> "REVERT_EDITS_ALL",
                           REVIEW_EDITS_FILE_BY_FILE |-> "REVIEW_EDITS_FILE_BY_FILE",
                           GO_TO_MAIN_MENU |-> "MAIN_MENU",
                           NO_EDITS |-> "MAIN_MENU"],
      SHOW_FILE_EDITS |-> [FINISHED_SHOWING_FILE_EDITS |-> "FILE_EDITS_MENU"],
      CONFIRM_EDITS_ALL |-> [FINISHED_CONFIRMING_FILE_EDITS |-> "FILE_EDITS_MENU"],
      REVERT_EDITS_ALL |-> [FINISHED_REVERTING_FILE_EDITS |-> "FILE_EDITS_MENU"],
      REVIEW_EDITS_FILE_BY_FILE |-> [NO_EDITS |-> "MAIN_MENU",
                                     GO_TO_FILE_EDITS_MENU |-> "FILE_EDITS_MENU"] ]

\* The table as it would be with the arc of FINISHED_REVERTING_FILE_EDITS
\* leading to USE_TOOL.
_transitions_reverting_to_use_tool ==
    [ START |-> [KICKOFF |-> "MAIN_MENU"],
      MAIN_MENU |-> [PROMPT_AGENT |-> "PROMPT_AGENT",
                     MANAGE_FILE_EDITS |-> "FILE_EDITS_MENU"],
      PROMPT_AGENT |-> [PROMPT_AGENT |-> "PROMPT_AGENT",
                        HAS_FUNCTION_CALLS |-> "USE_TOOL",
                        NO_FUNCTION_CALLS |-> "MAIN_MENU",
                        USER_EXITED |-> "END"],
      USE_TOOL |-> [FINISHED_USING_TOOL |-> "MAIN_MENU"],
      FILE_EDITS_MENU |-> [SHOW_FILE_EDITS |-> "SHOW_FILE_EDITS",
                           CONFIRM_EDITS_ALL |-> "CONFIRM_EDITS_ALL",
                           REVERT_EDITS_ALL |-> "REVERT_EDITS_ALL",
                           REVIEW_EDITS_FILE_BY_FILE |-> "REVIEW_EDITS_FILE_BY_FILE",
                           GO_TO_MAIN_MENU |-> "MAIN_MENU",
                           NO_EDITS |-> "MAIN_MENU"],
      SHOW_FILE_EDITS |-> [FINISHED_SHOWING_FILE_EDITS |-> "FILE_EDITS_MENU"],
      CONFIRM_EDITS_ALL |-> [FINISHED_CONFIRMING_FILE_EDITS |-> "FILE_EDITS_MENU"],
      REVERT_EDITS_ALL |-> [FINISHED_REVERTING_FILE_EDITS |-> "USE_TOOL"],
      REVIEW_EDITS_FILE_BY_FILE |-> [NO_EDITS |-> "MAIN_MENU",
                                     GO_TO_FILE_EDITS_MENU |-> "FILE_EDITS_MENU"] ]

\* The table as it would be with the arc of NO_FUNCTION_CALLS leading to END.
_transitions_no_calls_to_end ==
    [ START |-> [KICKOFF |-> "MAIN_MENU"],
      MAIN_MENU |-> [PROMPT_AGENT |-> "PROMPT_AGENT",
                     MANAGE_FILE_EDITS |-> "FILE_EDITS_MENU"],
      PROMPT_AGENT |-> [PROMPT_AGENT |-> "PROMPT_AGENT",
                        HAS_FUNCTION_CALLS |-> "USE_TOOL",
                        NO_FUNCTION_CALLS |-> "END",
                        USER_EXITED |-> "END"],
      USE_TOOL |-> [FINISHED_USING_TOOL |-> "MAIN_MENU"],
      FILE_EDITS_MENU |-> [SHOW_FILE_EDITS |-> "SHOW_FILE_EDITS",
                           CONFIRM_EDITS_ALL |-> "CONFIRM_EDITS_ALL",
                           REVERT_EDITS_ALL |-> "REVERT_EDITS_ALL",
                           REVIEW_EDITS_FILE_BY_FILE |-> "REVIEW_EDITS_FILE_BY_FILE",
                           GO_TO_MAIN_MENU |-> "MAIN_MENU",
                           NO_EDITS |-> "MAIN_MENU"],
      SHOW_FILE_EDITS |-> [FINISHED_SHOWING_FILE_EDITS |-> "FILE_EDITS_MENU"],
      CONFIRM_EDITS_ALL |-> [FINISHED_CONFIRMING_FILE_EDITS |-> "FILE_EDITS_MENU"],
      REVERT_EDITS_ALL |-> [FINISHED_REVERTING_FILE_EDITS |-> "FILE_EDITS_MENU"],
      REVIEW_EDITS_FILE_BY_FILE |-> [NO_EDITS |-> "MAIN_MENU",
                                     GO_TO_FILE_EDITS_MENU |-> "FILE_EDITS_MENU"] ]

_transitions ==
    [ START |-> [KICKOFF |-> "MAIN_MENU"],
      MAIN_MENU |-> [PROMPT_AGENT |-> "PROMPT_AGENT",
                     MANAGE_FILE_EDITS |-> "FILE_EDITS_MENU"],
      PROMPT_AGENT |-> [PROMPT_AGENT |-> "PROMPT_AGENT",
                        HAS_FUNCTION_CALLS |-> "USE_TOOL",
                        NO_FUNCTION_CALLS |-> "MAIN_MENU",
                        USER_EXITED |-> "END"],
      USE_TOOL |-> [FINISHED_USING_TOOL |-> "MAIN_MENU"],
      FILE_EDITS_MENU |-> [SHOW_FILE_EDITS |-> "SHOW_FILE_EDITS",
                           CONFIRM_EDITS_ALL |-> "CONFIRM_EDITS_ALL",
                           REVERT_EDITS_ALL |-> "REVERT_EDITS_ALL",
                           REVIEW_EDITS_FILE_BY_FILE |-> "REVIEW_EDITS_FILE_BY_FILE",
                           GO_TO_MAIN_MENU |-> "MAIN_MENU",
                           NO_EDITS |-> "MAIN_MENU"],
      SHOW_FILE_EDITS |-> [FINISHED_SHOWING_FILE_EDITS |-> "FILE_EDITS_MENU"],
      CONFIRM_EDITS_ALL |-> [FINISHED_CONFIRMING_FILE_EDITS |-> "FILE_EDITS_MENU"],
      REVERT_EDITS_ALL |-> [FINISHED_REVERTING_FILE_EDITS |-> "FILE_EDITS_MENU"],
      REVIEW_EDITS_FILE_BY_FILE |-> [NO_EDITS |-> "MAIN_MENU",
                                     GO_TO_FILE_EDITS_MENU |-> "FILE_EDITS_MENU"] ]

\* The body of the loop of start: the handler returned event, <<>> when it
\* goes round its own loop instead, and raised tells that it raised.
start(event, raised) ==
    IF raised
    THEN /\ crashed' = TRUE
         /\ UNCHANGED _current_state
    ELSE IF event = <<>>
    THEN UNCHANGED << _current_state, crashed >>
    ELSE IF event[1] \in DOMAIN _transitions[_current_state]
    THEN /\ _current_state' = _transitions[_current_state][event[1]]
         /\ UNCHANGED crashed
    ELSE /\ crashed' = TRUE
         /\ UNCHANGED _current_state

Running(state) == ~crashed /\ _current_state = state

SessionDisks ==
    {[p \in DiskPaths |-> IF p = "a" THEN fa ELSE Absent] :
        fa \in {Absent, File(<<"h">>)}}

\* What the user types at a menu, and at the prompt of the agent.
MenuInputs == {"1", "2", "two", "3", "4", "5", "x"}
PromptInputs == {"text", "", "KeyboardInterrupt"}
\* What a subprocess may end with.
Procs == {[stdout |-> "out", stderr |-> ""], [stdout |-> "", stderr |-> "aborted"]}
\* Only shell and code_search run a subprocess.
ProcsOf(name) == IF name \in {"shell", "code_search"} THEN Procs ELSE {NoProc}

Init ==
    /\ Constructed
    /\ disk \in SessionDisks
    /\ hashseed \in {{}, {HashedTuple(ShellLs), HashedTuple(Bogus)}}

\* send_message as it would be with the context put before every message,
\* an empty context included: a string before the list of a tool result raises.
send_message_always_prefixed(kind, body) ==
    [ msg    |-> [kind |-> kind, context |-> _user_actions_context, body |-> body],
      raised |-> kind = "tool" ]

\* send_message: the message that leaves, with the context put before it, and
\* whether the concatenation raises; a tool result is a list, and a string
\* cannot be put before a list.
send_message(kind, body) ==
    [ msg    |-> [kind |-> kind, context |-> _user_actions_context, body |-> body],
      raised |-> kind = "tool" /\ _user_actions_context # <<>> ]

_kickoff ==
    /\ Running("START")
    /\ start(<<"KICKOFF">>, FALSE)
    /\ last' = Step("_kickoff")
    /\ UNCHANGED << _deque, _set, _user_actions_context, _files, disk, hashseed, spinner, reader,
                    orig, edited, alone >>

_main_menu ==
    /\ Running("MAIN_MENU")
    /\ IF has_edits(_files)
       THEN \E choice \in MenuInputs :
               /\ start(IF choice \in {"1", "one"} THEN <<"PROMPT_AGENT">>
                        ELSE IF choice \in {"2", "two"} THEN <<"MANAGE_FILE_EDITS">>
                        ELSE <<>>, FALSE)
               /\ last' = [Step("_main_menu") EXCEPT !.answer = choice]
       ELSE /\ start(<<"PROMPT_AGENT">>, FALSE)
            /\ last' = Step("_main_menu")
    /\ UNCHANGED << _deque, _set, _user_actions_context, _files, disk, hashseed, spinner, reader,
                    orig, edited, alone >>

_prompt_agent ==
    /\ Running("PROMPT_AGENT")
    /\ \E input \in PromptInputs :
          IF input = "KeyboardInterrupt"
          THEN /\ start(<<"USER_EXITED">>, FALSE)
               /\ last' = [Step("_prompt_agent") EXCEPT !.answer = input]
               /\ UNCHANGED << _deque, _set, _user_actions_context >>
          ELSE IF input = ""
          THEN /\ start(<<"PROMPT_AGENT">>, FALSE)
               /\ last' = [Step("_prompt_agent") EXCEPT !.answer = input]
               /\ UNCHANGED << _deque, _set, _user_actions_context >>
          ELSE \E reply \in Batches(SessionCalls) :
               \E m \in {send_message("user", <<>>)}, Q \in {extend(Queue, reply)} :
               /\ _user_actions_context' = <<>>
               /\ _deque' = Q.deque
               /\ _set' = Q.set
               /\ start(IF empty(Q) THEN <<"NO_FUNCTION_CALLS">>
                        ELSE <<"HAS_FUNCTION_CALLS">>, FALSE)
               /\ last' = [Step("_prompt_agent") EXCEPT
                             !.answer = input, !.sent = <<m.msg>>]
    /\ UNCHANGED << _files, disk, hashseed, spinner, reader, orig, edited, alone >>

\* One turn of the loop of _use_tool: the call at the front is dispatched;
\* when its error is "aborted" the queue is discarded and the handler
\* returns, otherwise the result goes to the model and the calls of the
\* reply join the queue.
_use_tool_call ==
    /\ Running("USE_TOOL")
    /\ ~empty(Queue)
    /\ \E P \in {pop(Queue)} :
       \E answer \in Answers, proc \in ProcsOf(P.call.name) :
       \E t \in {call_tool(Tracker, P.call.name, P.call.args,
                           [answer |-> answer, proc |-> proc])} :
          /\ FitsBound(t.disk)
          /\ Dispatched(P.call, t)
          /\ IF t.raised # <<>>
             THEN /\ _deque' = P.deque
                  /\ _set' = P.set
                  /\ start(<<>>, TRUE)
                  /\ last' = [Step("_use_tool") EXCEPT
                                !.call = <<P.call>>, !.exc = t.raised]
                  /\ UNCHANGED _user_actions_context
             ELSE IF t.envelope.error = <<"aborted">>
             THEN /\ _deque' = discard(P).deque
                  /\ _set' = discard(P).set
                  /\ start(<<"FINISHED_USING_TOOL">>, FALSE)
                  /\ last' = [Step("_use_tool") EXCEPT
                                !.call = <<P.call>>, !.envelope = <<t.envelope>>,
                                !.ran = t.ran, !.prompted = t.prompted,
                                !.answer = IF t.prompted THEN answer ELSE "",
                                !.discarded = P.deque]
                  /\ UNCHANGED _user_actions_context
             ELSE \E m \in {send_message("tool", t.envelope)} :
                  IF m.raised
                  THEN /\ _deque' = P.deque
                       /\ _set' = P.set
                       /\ start(<<>>, TRUE)
                       /\ last' = [Step("_use_tool") EXCEPT
                                     !.call = <<P.call>>, !.envelope = <<t.envelope>>,
                                     !.ran = t.ran, !.prompted = t.prompted,
                                     !.answer = IF t.prompted THEN answer ELSE "",
                                     !.exc = Exc("TypeError", "can only concatenate")]
                       /\ UNCHANGED _user_actions_context
                  ELSE \E reply \in Replies(SessionCalls) :
                       \E Q \in {extend(P, reply)} :
                       /\ _deque' = Q.deque
                       /\ _set' = Q.set
                       /\ _user_actions_context' = <<>>
                       /\ start(<<>>, FALSE)
                       /\ last' = [Step("_use_tool") EXCEPT
                                     !.call = <<P.call>>, !.envelope = <<t.envelope>>,
                                     !.ran = t.ran, !.prompted = t.prompted,
                                     !.answer = IF t.prompted THEN answer ELSE "",
                                     !.sent = <<m.msg>>]
    /\ UNCHANGED << hashseed, spinner, reader >>

\* The loop of _use_tool ends on an empty queue.
_use_tool_return ==
    /\ Running("USE_TOOL")
    /\ empty(Queue)
    /\ start(<<"FINISHED_USING_TOOL">>, FALSE)
    /\ last' = Step("_use_tool")
    /\ UNCHANGED << _deque, _set, _user_actions_context, _files, disk, hashseed, spinner, reader,
                    orig, edited, alone >>

_file_edits_menu ==
    /\ Running("FILE_EDITS_MENU")
    /\ IF ~has_edits(_files)
       THEN /\ start(<<"NO_EDITS">>, FALSE)
            /\ last' = Step("_file_edits_menu")
       ELSE \E choice \in MenuInputs :
               /\ start(CASE choice \in {"1", "one"} -> <<"SHOW_FILE_EDITS">>
                          [] choice \in {"2", "two"} -> <<"CONFIRM_EDITS_ALL">>
                          [] choice \in {"3", "three"} -> <<"REVERT_EDITS_ALL">>
                          [] choice \in {"4", "four"} -> <<"REVIEW_EDITS_FILE_BY_FILE">>
                          [] choice \in {"5", "five"} -> <<"GO_TO_MAIN_MENU">>
                          [] OTHER -> <<>>, FALSE)
               /\ last' = [Step("_file_edits_menu") EXCEPT !.answer = choice]
    /\ UNCHANGED << _deque, _set, _user_actions_context, _files, disk, hashseed, spinner, reader,
                    orig, edited, alone >>

_show_file_edits ==
    /\ Running("SHOW_FILE_EDITS")
    /\ \E exc \in {print_all_file_diffs(Tracker)} :
          /\ start(<<"FINISHED_SHOWING_FILE_EDITS">>, exc # <<>>)
          /\ last' = [Step("_show_file_edits") EXCEPT !.exc = exc]
    /\ UNCHANGED << _deque, _set, _user_actions_context, _files, disk, hashseed, spinner, reader,
                    orig, edited, alone >>

\* The effect of a confirm or revert operation of a menu that returned r.
SettledInMenu(op, path, r, settled) ==
    /\ _files' = r.files
    /\ disk' = r.disk
    /\ orig' = OrigAfter(Tracker, r)
    /\ edited' = IF r.exc = <<>> THEN edited \ settled ELSE edited
    /\ alone' = AloneAfter(Tracker, r, settled)
    /\ last' = [Step(op) EXCEPT !.path = path, !.exc = r.exc]

_confirm_edits_all ==
    /\ Running("CONFIRM_EDITS_ALL")
    /\ \E r \in {confirm_all(Tracker)} :
          /\ SettledInMenu("confirm_all", "", r, TrackedSet(_files))
          /\ start(<<"FINISHED_CONFIRMING_FILE_EDITS">>, r.exc # <<>>)
    /\ UNCHANGED << _deque, _set, _user_actions_context, hashseed, spinner, reader >>

_revert_edits_all ==
    /\ Running("REVERT_EDITS_ALL")
    /\ \E r \in {revert_all(Tracker)} :
          /\ SettledInMenu("revert_all", "", r, TrackedSet(_files))
          /\ _user_actions_context' =
                IF r.exc = <<>> THEN Append(_user_actions_context, r.ret[1])
                ELSE _user_actions_context
          /\ start(<<"FINISHED_REVERTING_FILE_EDITS">>, r.exc # <<>>)
    /\ UNCHANGED << _deque, _set, hashseed, spinner, reader >>

\* One turn of the outer loop of _review_edits_file_by_file.  choice is the
\* number typed at the list of files, action the one typed under the diff.
_review_edits_file_by_file ==
    /\ Running("REVIEW_EDITS_FILE_BY_FILE")
    /\ IF ~has_edits(_files)
       THEN /\ start(<<"NO_EDITS">>, FALSE)
            /\ last' = Step("_review_edits_file_by_file")
            /\ UNCHANGED << _user_actions_context, _files, disk, orig, edited, alone >>
       ELSE \E choice \in 1..(Len(_files) + 2), action \in {"1", "2", "3"} :
            LET num_files == Len(tracked_files(_files))
            IN  IF choice = num_files + 1
                THEN /\ start(<<"GO_TO_FILE_EDITS_MENU">>, FALSE)
                     /\ last' = Step("_review_edits_file_by_file")
                     /\ UNCHANGED << _user_actions_context, _files, disk, orig,
                                     edited, alone >>
                ELSE IF choice > num_files
                THEN /\ start(<<>>, FALSE)
                     /\ last' = [Step("_review_edits_file_by_file") EXCEPT
                                   !.answer = "x"]
                     /\ UNCHANGED << _user_actions_context, _files, disk, orig,
                                     edited, alone >>
                ELSE LET path == tracked_files(_files)[choice]
                     IN  IF file_diff(Tracker, path) # <<>>
                         THEN /\ start(<<>>, TRUE)
                              /\ last' = [Step("print_file_diffs") EXCEPT
                                            !.path = path,
                                            !.exc = file_diff(Tracker, path)]
                              /\ UNCHANGED << _user_actions_context, _files, disk,
                                              orig, edited, alone >>
                         ELSE IF action = "1"
                         THEN \E r \in {confirm_file(Tracker, path)} :
                              /\ SettledInMenu("confirm_file", path, r, {path})
                              /\ start(<<>>, r.exc # <<>>)
                              /\ UNCHANGED _user_actions_context
                         ELSE IF action = "2"
                         THEN \E r \in {revert_file(Tracker, path)} :
                              /\ SettledInMenu("revert_file", path, r, {path})
                              /\ _user_actions_context' =
                                    IF r.exc = <<>>
                                    THEN Append(_user_actions_context, r.ret[1])
                                    ELSE _user_actions_context
                              /\ start(<<>>, r.exc # <<>>)
                         ELSE /\ start(<<>>, FALSE)
                              /\ last' = [Step("_review_edits_file_by_file") EXCEPT
                                            !.path = path, !.answer = action]
                              /\ UNCHANGED << _user_actions_context, _files, disk,
                                              orig, edited, alone >>
    /\ UNCHANGED << _deque, _set, hashseed, spinner, reader >>

Next ==
    \/ _kickoff
    \/ _main_menu
    \/ _prompt_agent
    \/ _use_tool_call
    \/ _use_tool_return
    \/ _file_edits_menu
    \/ _show_file_edits
    \/ _confirm_edits_all
    \/ _revert_edits_all
    \/ _review_edits_file_by_file

Spec == Init /\ [][Next]_vars

\* What a drain is seen by: the state of the session and the pending calls.
drain == << _current_state, _deque >>

\* The values of the deque: the calls of a session in some order, none twice.
Pendings ==
    {d \in UNION {[1..n -> SessionCalls] : n \in 0..Cardinality(SessionCalls)} :
        \A i, j \in 1..Len(d) : d[i] = d[j] => i = j}

\* The user can decline the call that the next turn pops, the one at the left
\* of the deque: it is a call that gets as far as the confirmation prompt of
\* its tool.
CanDecline ==
    call_tool(Tracker, Head(_deque).name, Head(_deque).args,
              [answer |-> "no", proc |-> NoProc]).envelope.error = <<"aborted">>

\* A turn of the loop of _use_tool, by what it does to the drain.
DrainTurn ==
    /\ Running("USE_TOOL")
    /\ ~empty(Queue)
    /\ _deque' \in Pendings
    /\ _current_state' \in {"USE_TOOL", "MAIN_MENU"}

\* A turn of the loop of _use_tool that leaves the queue empty: the user
\* declines the confirmation, or the model's reply to the last pending call
\* requests no new call.
LastTurn ==
    /\ Running("USE_TOOL")
    /\ ~empty(Queue)
    /\ CanDecline \/ Len(_deque) = 1
    /\ _deque' = <<>>
    /\ _current_state' \in {"USE_TOOL", "MAIN_MENU"}

\* The session with a loop of _use_tool that goes on (the process is not
\* stopped in the middle of a drain), and in which the drain is ended, by the
\* user or by the model, if they can end it again and again.
SpecLive ==
    /\ Spec
    /\ WF_drain(DrainTurn)
    /\ WF_vars(_use_tool_return)
    /\ SF_drain(LastTurn)

(***************************************************************************)
(* Spinner (src/src/spinner.py).  One operation at a time is wrapped: the  *)
(* caller goes through spin or spin_context, the thread of the spinner     *)
(* through _spin; the steps of the two interleave.                         *)
(***************************************************************************)
\* spin wraps the round trip to the model, spin_context the bodies of the tools.
Wrappers == {"spin", "spin_context"}
\* How the body of a wrapped operation ends.
Outcomes == {"return", "raise"}

\* Spinner.__init__
NewSpinner == [_running |-> FALSE, _thread |-> "None"]

\* Where a thread that was started and has not terminated is in _spin: at the
\* test of the loop, after a test that read True, after one that read False.
Alive == {"test", "write", "exit"}

\* Spinner.start: the flag is set, the thread is made and started.
Spinner_start(sp) ==
    IF sp._running THEN sp
    ELSE [_running |-> TRUE, _thread |-> "test"]

\* Everything but the spinner and the history of the last step.
session ==
    << _current_state, _deque, _set, _user_actions_context, _files, disk,
       hashseed, crashed, orig, edited, alone >>

InitSpinner ==
    /\ Constructed
    /\ disk = [p \in DiskPaths |-> Absent]
    /\ hashseed = {}

\* spin and spin_context up to the try: a Spinner is made and started.
wrapper_enter ==
    /\ pc = "idle"
    /\ \E by \in Wrappers, sp \in {Spinner_start(NewSpinner)} :
          /\ wrapped' = <<[by |-> by, outcome |-> ""]>>
          /\ _running' = sp._running
          /\ _thread' = sp._thread
          /\ last' = [Step("start") EXCEPT !.path = by]
    /\ frames' = 0
    /\ pc' = "body"
    /\ UNCHANGED << session, reader >>

\* The body of the try: the wrapped function, or the block of the with
\* statement, returns or raises.
wrapper_body ==
    /\ pc = "body"
    /\ \E outcome \in Outcomes :
          /\ wrapped' = <<[wrapped[1] EXCEPT !.outcome = outcome]>>
          /\ last' = [Step("body") EXCEPT
                        !.path = wrapped[1].by, !.ran = TRUE,
                        !.exc = IF outcome = "raise" THEN Exc("Exception", "")
                                ELSE <<>>]
    /\ pc' = "finally"
    /\ UNCHANGED << _running, _thread, frames, session, reader >>

\* The finally clause calls Spinner.stop, which first clears the flag.
Spinner_stop ==
    /\ pc = "finally"
    /\ _running' = FALSE
    /\ pc' = "join"
    /\ last' = [Step("stop") EXCEPT !.path = wrapped[1].by]
    /\ UNCHANGED << _thread, wrapped, frames, session, reader >>

\* Spinner.stop with a join that does not wait for the thread.
Spinner_join_without_waiting ==
    /\ pc = "join"
    /\ pc' = "idle"
    /\ last' = [Step("join") EXCEPT !.path = wrapped[1].by]
    /\ UNCHANGED << _running, _thread, wrapped, frames, session, reader >>

\* Spinner.stop then joins the thread: join returns when the thread has
\* terminated, and the wrapper returns, or raises, to its caller.
Spinner_join ==
    /\ pc = "join"
    /\ _thread \notin Alive
    /\ pc' = "idle"
    /\ last' = [Step("join") EXCEPT !.path = wrapped[1].by]
    /\ UNCHANGED << _running, _thread, wrapped, frames, session, reader >>

\* _spin reads the flag at the test of its loop.
_spin_test ==
    /\ _thread = "test"
    /\ _thread' = IF _running THEN "write" ELSE "exit"
    /\ last' = Step("_spin")
    /\ UNCHANGED << _running, pc, wrapped, frames, session, reader >>

\* _spin writes a frame and sleeps.
_spin_frame ==
    /\ _thread = "write"
    /\ frames' = IF frames < MaxFrames THEN frames + 1 ELSE frames
    /\ _thread' = "test"
    /\ last' = [Step("_spin") EXCEPT !.ran = TRUE]
    /\ UNCHANGED << _running, pc, wrapped, session, reader >>

\* _spin writes the check mark after the loop, and the thread terminates.
_spin_exit ==
    /\ _thread = "exit"
    /\ _thread' = "done"
    /\ last' = [Step("_spin") EXCEPT !.answer = "done"]
    /\ UNCHANGED << _running, pc, wrapped, frames, session, reader >>

NextSpinner ==
    \/ wrapper_enter
    \/ wrapper_body
    \/ Spinner_stop
    \/ Spinner_join
    \/ _spin_test
    \/ _spin_frame
    \/ _spin_exit

SpecSpinner == InitSpinner /\ [][NextSpinner]_vars

(***************************************************************************)
(* The input loop of GeminiAgent._prompt_agent (src/src/gemini.py).  A     *)
(* line is a sequence of characters; input() never returns a line with a   *)
(* line feed in it.                                                        *)
(***************************************************************************)
\* What input() returns: the empty line, or a line of text.
InputLines == { <<>>, <<"t">> }

\* "\n".join(lines), computed by halves.
RECURSIVE join_lines(_)
join_lines(lines) ==
    IF lines = <<>> THEN <<>>
    ELSE IF Len(lines) = 1 THEN lines[1]
    ELSE LET half == Len(lines) \div 2
         IN  join_lines(SubSeq(lines, 1, half)) \o <<"LF">>
             \o join_lines(SubSeq(lines, half + 1, Len(lines)))

\* The lines of a text: one more than its line feeds.
line_count(text) == Cardinality({i \in 1..Len(text) : text[i] = "LF"}) + 1

\* range(100) as it would be with one more iteration.
range_exhausted_late(n) == n > MaxInputLines

\* The for loop has made all the iterations of range(100) after n of them.
range_exhausted(n) == n >= MaxInputLines

InitReader ==
    /\ Constructed
    /\ disk = [p \in DiskPaths |-> Absent]
    /\ hashseed = {}

\* _prompt_agent is entered: the prompt is printed, input_lines = [].
prompt_begin ==
    /\ reading = "idle"
    /\ input_lines' = <<>>
    /\ warned' = FALSE
    /\ reading' = "loop"
    /\ last' = Step("_prompt_agent")
    /\ UNCHANGED << session, spinner >>

\* One iteration of the for loop: input() returns a line, or the user
\* interrupts it.  Every iteration that does not leave the loop appends a
\* line, so the iterations made are Len(input_lines).
prompt_input ==
    /\ reading = "loop"
    /\ ~range_exhausted(Len(input_lines))
    /\ \/ \E line \in InputLines :
             /\ IF line # <<>>
                THEN /\ input_lines' = Append(input_lines, line)
                     /\ reading' = "loop"
                ELSE /\ reading' = "break"
                     /\ UNCHANGED input_lines
             /\ last' = [Step("input") EXCEPT !.sent = <<line>>]
       \/ /\ reading' = "idle"
          /\ last' = [Step("input") EXCEPT !.answer = "KeyboardInterrupt"]
          /\ UNCHANGED input_lines
    /\ UNCHANGED << warned, session, spinner >>

\* The else clause of the for loop: the iterations are used up.
prompt_else ==
    /\ reading = "loop"
    /\ range_exhausted(Len(input_lines))
    /\ warned' = TRUE
    /\ reading' = "else"
    /\ last' = Step("Max input size reached")
    /\ UNCHANGED << input_lines, session, spinner >>

\* After the loop: nothing was typed and the prompt is shown again, or the
\* lines go to the model in one message.
prompt_send ==
    /\ reading \in {"break", "else"}
    /\ reading' = "idle"
    /\ last' = IF input_lines = <<>> THEN [Step("_prompt_agent") EXCEPT !.answer = ""]
               ELSE [Step("_prompt_agent") EXCEPT
                       !.answer = "text",
                       !.sent = << <<"User message: ">> \o join_lines(input_lines) >>]
    /\ UNCHANGED << input_lines, warned, session, spinner >>

NextReader == prompt_begin \/ prompt_input \/ prompt_else \/ prompt_send

SpecReader == InitReader /\ [][NextReader]_vars

(***************************************************************************)
(* Properties.                                                             *)
(***************************************************************************)
\* The last step was the operation op on path.
Did(op, path) == last'.op = op /\ last'.path = path

\* C1: for a file p that exists with content C when it is first tracked, after
\* any number of successful or failed edit_file calls on p alone, revert_file(p)
\* leaves p with content exactly C, no backup file of p on disk, and p untracked.
C1_RevertRestoresExactContent ==
    [][\A p \in EditPaths :
          ( /\ Did("revert_file", p)
            /\ p \in TrackedSet(_files)
            /\ p \in alone
            /\ orig[p][1].exists )
          => /\ disk'[p] = orig[p][1]
             /\ ~disk'[backup_path(p)].exists
             /\ p \notin TrackedSet(_files')]_vars

\* Two calls have the same identity: the same name and value-equal arguments,
\* whatever the order of the keys.
SameCall(c, d) ==
    /\ c.name = d.name
    /\ Keys(c.args) = Keys(d.args)
    /\ \A k \in Keys(c.args) : Get(c.args, k) = Get(d.args, k)

\* C2: after any sequence of extend, pop and discard, no two pending calls have
\* the same identity.
C2_NoTwoPendingCallsAlike ==
    \A i, j \in 1..Len(_deque) : i # j => ~SameCall(_deque[i], _deque[j])

\* A reply asked for one call twice, the second time with its arguments in
\* another order, and the queue holds it once.
C2_Witness ==
    /\ last.op = "extend"
    /\ last.sent = <<EditReplace, EditReplaceReordered>>
    /\ _deque = <<EditReplace>>

\* C3: the set of keys and the deque never diverge: they hold the same number
\* of entries, and empty is true exactly when the deque has nothing to pop.
C3_KeysMatchDeque ==
    /\ Cardinality(_set) = Len(_deque)
    /\ _set = {} <=> _deque = <<>>
    /\ empty(Queue) <=> _deque = <<>>

\* A pop has left one call pending, under a hash that has a collision.
C3_Witness ==
    /\ last.op = "pop"
    /\ Len(_deque) = 1
    /\ hashseed # {}

\* C7: whenever no tool call is executing, the tracked paths are exactly the
\* paths with a successful edit_file that was neither confirmed nor reverted.
C7_TrackedIffPendingEdit ==
    ~crashed => TrackedSet(_files) = edited

\* An edit of .a.bak has just failed while a, edited before, is tracked.
C7_Witness ==
    /\ last.op = "call_tool"
    /\ last.path = ".a.bak"
    /\ last.ran
    /\ last.envelope[1].error # <<>>
    /\ TrackedSet(_files) = {"a"}
    /\ edited = {"a"}

\* C8: for every tracked path p, if p existed when it was first tracked its
\* backup file exists and holds exactly the content p had then, and if p did
\* not exist its backup is absent.
C8_BackupHoldsFirstContent ==
    \A p \in TrackedSet(_files) :
        IF orig[p][1].exists
        THEN /\ BackupOf(_files, p) # NoBackup
             /\ disk[BackupOf(_files, p)] = orig[p][1]
        ELSE BackupOf(_files, p) = NoBackup

\* C9: for a tracked path p with no backup (the session's edit created it),
\* revert_file(p) deletes p from disk and untracks it, and creates no backup.
C9_RevertDeletesCreatedFile ==
    [][\A p \in EditPaths :
          ( /\ Did("revert_file", p)
            /\ p \in TrackedSet(_files)
            /\ BackupOf(_files, p) = NoBackup )
          => /\ ~disk'[p].exists
             /\ p \notin TrackedSet(_files')
             /\ disk'[backup_path(p)] = disk[backup_path(p)]]_vars

\* C10: confirm_file(p) on a tracked path p untracks p and deletes its backup,
\* if any, and leaves p's content and the entries and backups of the other
\* tracked paths as they were.
C10_ConfirmKeepsContent ==
    [][\A p \in EditPaths :
          ( /\ Did("confirm_file", p)
            /\ p \in TrackedSet(_files) )
          => /\ p \notin TrackedSet(_files')
             /\ BackupOf(_files, p) # NoBackup => ~disk'[BackupOf(_files, p)].exists
             /\ disk'[p] = disk[p]
             /\ \A q \in TrackedSet(_files) \ {p} :
                   /\ q \in TrackedSet(_files')
                   /\ BackupOf(_files', q) = BackupOf(_files, q)
                   /\ BackupOf(_files, q) # NoBackup
                        => disk'[BackupOf(_files, q)] = disk[BackupOf(_files, q)]]_vars

\* The step is a turn of the loop of _use_tool: a call was popped and
\* dispatched.
Drained == last'.op = "_use_tool" /\ last'.call # <<>>

\* C4: if the user declines the confirmation prompt of a call during a drain,
\* the tool body does not run (no result, tracker and workspace untouched), the
\* envelope carries the error "aborted", the calls queued behind it are removed,
\* the queue is empty and the next state is MAIN_MENU.
C4_DeclineEndsTheDrain ==
    [][( /\ Drained
         /\ last'.prompted
         /\ last'.answer = "no" )
       => /\ last'.envelope[1].error = <<"aborted">>
          /\ last'.envelope[1].result = <<>>
          /\ _files' = _files
          /\ disk' = disk
          /\ last'.sent = <<>>
          /\ _deque' = <<>>
          /\ _set' = {}
          /\ _current_state' = "MAIN_MENU"
          /\ ~crashed']_vars

\* The user has declined a shell call with two more calls queued behind it.
C4_Witness ==
    /\ last.op = "_use_tool"
    /\ last.call = <<ShellLs>>
    /\ last.answer = "no"
    /\ Len(last.discarded) = 2
    /\ _deque = <<>>
    /\ _current_state = "MAIN_MENU"

\* C5: calls are dispatched in the order in which they were admitted: a turn of
\* the drain dispatches the call at the front, the oldest pending one, and the
\* calls of a reply are admitted behind those already pending.
C5_DispatchedInAdmissionOrder ==
    [][/\ Drained =>
            /\ last'.call[1] = Head(_deque)
            /\ \/ _deque' = <<>>
               \/ IsPrefix(Tail(_deque), _deque')
       /\ last'.op = "_prompt_agent" => IsPrefix(_deque, _deque')]_vars

\* A turn of the drain has sent a result and left two calls pending, the
\* second of which the reply to that result asked for.
C5_Witness ==
    /\ last.op = "_use_tool"
    /\ last.sent # <<>>
    /\ _current_state = "USE_TOOL"
    /\ Len(_deque) = 2
    /\ last.call[1] = _deque[2]

\* C6 as claimed: every call popped in a drain produces exactly one message to
\* the model, carrying its result envelope.
C6_EveryPoppedCallIsReported ==
    [][Drained =>
          /\ Len(last'.sent) = 1
          /\ last'.sent[1].body = last'.envelope[1]]_vars

\* C6 as amended: a popped call whose envelope does not carry the error
\* "aborted" produces exactly one message to the model, carrying its envelope
\* and nothing else, within its turn of the drain; one whose envelope carries
\* "aborted" produces none, and the queue is discarded.
C6_PoppedCallIsReportedUnlessAborted ==
    [][Drained =>
          IF last'.envelope[1].error = <<"aborted">>
          THEN last'.sent = <<>> /\ _deque' = <<>>
          ELSE /\ Len(last'.sent) = 1
               /\ last'.sent[1] = [kind |-> "tool", context |-> <<>>,
                                   body |-> last'.envelope[1]]
               /\ ~crashed']_vars

\* The result of a failed edit has been sent while another call is pending.
C6_Witness ==
    /\ last.op = "_use_tool"
    /\ last.call[1].name = "edit_file"
    /\ last.envelope[1].error \notin {<<>>, <<"aborted">>}
    /\ Len(last.sent) = 1
    /\ _deque # <<>>

\* C11: track_file on a path that is not tracked returns True and the path
\* becomes tracked; on a path that is tracked it returns False and changes
\* neither the tracker nor any file.
C11_TrackOnceThenNoOp ==
    \A p \in EditPaths :
        LET r == track_file(Tracker, p)
        IN  IF p \notin TrackedSet(_files)
            THEN /\ r.exc = <<>>
                 /\ r.ret = <<TRUE>>
                 /\ p \in TrackedSet(r.files)
            ELSE /\ r.exc = <<>>
                 /\ r.ret = <<FALSE>>
                 /\ r.files = _files
                 /\ r.disk = disk

\* The call of edit_file on p that this step made went past track_file and
\* then failed.
FailedAfterTracking(p) ==
    /\ Did("call_tool", p)
    /\ last'.ran
    /\ last'.envelope[1].error # <<>>
    /\ track_file(Tracker, p).exc = <<>>

\* C12: an edit_file call that fails after tracking on a path p that was not
\* tracked leaves p untracked and no backup of p on disk (the backup file it
\* wrote is gone, and when p did not exist no backup file was written); on a
\* path that was tracked it leaves the entry and the backup as they were.
C12_FailedEditUndoesTracking ==
    [][\A p \in EditPaths :
          FailedAfterTracking(p) =>
             IF p \notin TrackedSet(_files)
             THEN /\ p \notin TrackedSet(_files')
                  /\ IF disk[p].exists
                     THEN ~disk'[backup_path(p)].exists
                     ELSE disk'[backup_path(p)] = disk[backup_path(p)]
             ELSE /\ _files' = _files
                  /\ BackupOf(_files, p) # NoBackup =>
                        disk'[BackupOf(_files, p)] = disk[BackupOf(_files, p)]]_vars

\* An edit of a, which exists and was not tracked, has failed after its
\* backup was written.
C12_Witness ==
    /\ last.op = "call_tool"
    /\ last.path = "a"
    /\ last.ran
    /\ last.envelope[1].error = <<"new_str must be different from old_str">>
    /\ disk["a"].exists
    /\ _files = <<>>
    /\ ~disk[".a.bak"].exists

\* C13: when track_file raises in a call of edit_file, the edit is attempted
\* all the same: the call ends as _edit_file ends on the state that track_file
\* left.
C13_EditAttemptedWhenTrackingFails ==
    \A p \in EditPaths, oldnew \in EditArgs :
        LET t == track_file(Tracker, p)
            r == edit_file(Tracker, EditCall(p, oldnew[1], oldnew[2]).args,
                           [answer |-> "yes", proc |-> NoProc])
            e == _edit_file(t, p, oldnew[1], oldnew[2])
        IN  t.exc # <<>> =>
               /\ r.disk = e.disk
               /\ r.ret = e.ret
               /\ r.exc = e.exc

\* The calls put to the dispatcher: those of a session, and calls with a
\* required argument missing, with an argument the tool does not know, and of
\* the tools that read.
DispatcherCalls ==
    SessionCalls \cup
    { Call("edit_file", << <<"path", "a">> >>),
      Call("read_binary_file", <<>>),
      Call("read_binary_file", << <<"path", "a">> >>),
      Call("read_text_file", << <<"path", "a">> >>),
      Call("shell", << <<"args", "ls -l">>, <<"path", "a">> >>),
      Call("list_files", <<>>) }

\* C14: call_tool is total: for every name and arguments, whatever the user
\* answers and however the tool ends, it returns an envelope of tool, result,
\* error and mime_type, with the name of the call and with no result beside a
\* failure of the tool, and raises nothing; every call that the drain has
\* dispatched came back with its envelope.
C14_CallToolIsTotal ==
    /\ \A c \in DispatcherCalls, answer \in Answers :
       \A proc \in ProcsOf(c.name) :
          LET t == call_tool(Tracker, c.name, c.args,
                             [answer |-> answer, proc |-> proc])
          IN  /\ t.raised = <<>>
              /\ DOMAIN t.envelope = {"tool", "result", "error", "mime_type"}
              /\ t.envelope.tool = c.name
              /\ t.envelope.error # <<>> => t.envelope.result = <<>>
    /\ last.op = "_use_tool" /\ last.call # <<>> => last.envelope # <<>>

\* A call of the drain whose tool raised has come back with its envelope, and
\* the drain goes on.
C14_Witness ==
    /\ last.op = "_use_tool"
    /\ last.call = <<EditBackup>>
    /\ last.ran
    /\ last.envelope[1].error = <<"No such file or directory">>
    /\ last.envelope[1].result = <<>>
    /\ _current_state = "USE_TOOL"
    /\ ~crashed

\* C15: a call whose name is not in the tool table comes back with the error
\* of an unsupported tool and no result, without a prompt, without a tool body
\* run and with the tracker and the workspace as they were; the envelope goes
\* to the model and the drain goes on with the calls pending behind it.
C15_UnknownToolIsReported ==
    [][( /\ Drained
         /\ last'.call[1].name \notin DOMAIN _tool_map )
       => /\ last'.envelope[1].error =
                <<"Function '" \o last'.call[1].name \o "' is not supported">>
          /\ last'.envelope[1].result = <<>>
          /\ ~last'.prompted
          /\ ~last'.ran
          /\ _files' = _files
          /\ disk' = disk
          /\ Len(last'.sent) = 1
          /\ last'.sent[1].body = last'.envelope[1]
          /\ ~crashed'
          /\ _current_state' = "USE_TOOL"
          /\ IsPrefix(Tail(_deque), _deque')]_vars

\* The envelope of a call of an unknown tool has gone to the model while a
\* file is tracked and another call is pending.
C15_Witness ==
    /\ last.op = "_use_tool"
    /\ last.call = <<Bogus>>
    /\ Len(last.sent) = 1
    /\ has_edits(_files)
    /\ _deque # <<>>
    /\ _current_state = "USE_TOOL"

\* The session loop has ended on an exception that a handler raised.
HandlerRaised == crashed /\ last.exc # <<>>

\* The session loop has ended on an event that the table has no arc for.
TransitionError == crashed /\ last.exc = <<>>

\* C16: only the error of an unmapped transition ends the session loop: no
\* failure of a tool or of a tracker operation of the menus leaves a handler.
C16_NoHandlerRaises == ~HandlerRaised

\* The states of the table, and END.
States == DOMAIN _transitions \cup {"END"}

\* C17: one state of the table is current at any time, and every event that a
\* handler returns has an arc out of the current state: the error of an
\* unmapped transition is never raised.
C17_TransitionsAreTotal ==
    /\ _current_state \in States
    /\ ~TransitionError

\* The review has settled the last tracked file and returned NO_EDITS, which
\* led to the main menu.
C17_Witness ==
    /\ last.op = "_review_edits_file_by_file"
    /\ last.answer = ""
    /\ ~has_edits(_files)
    /\ edited = {}
    /\ _current_state = "MAIN_MENU"

\* C18: a revert of the menus appends to the user actions context a note that
\* names the reverted paths; a message that is sent carries, before its text,
\* the notes appended since the send before it, in their order, and leaves the
\* context empty; no other step changes the context.
C18_RevertNotesReachTheModelOnce ==
    [][/\ last'.op = "revert_file" =>
            /\ last'.exc = <<>>
            /\ _user_actions_context' =
                  Append(_user_actions_context, "Reverted edits to " \o last'.path)
       /\ last'.op = "revert_all" =>
            /\ last'.exc = <<>>
            /\ _user_actions_context' =
                  Append(_user_actions_context,
                         "Reverted edits to " \o join(", ", tracked_files(_files)))
       /\ last'.sent # <<>> =>
            /\ last'.sent[1].context = _user_actions_context
            /\ _user_actions_context' = <<>>
       /\ ( /\ last'.op \notin {"revert_file", "revert_all"}
            /\ last'.sent = <<>> ) =>
            _user_actions_context' = _user_actions_context]_vars

\* The message of the user has left with the notes of two reverts before it,
\* each of a single file in the review.
C18_Witness ==
    /\ last.op = "_prompt_agent"
    /\ Len(last.sent) = 1
    /\ last.sent[1].context =
          << "Reverted edits to .a.bak", "Reverted edits to a" >>
    /\ _user_actions_context = <<>>

\* C19: in MAIN_MENU with no tracked file the next state is PROMPT_AGENT and
\* no choice is read; with a tracked file the next state is PROMPT_AGENT or
\* FILE_EDITS_MENU as the user chooses, and any other input leaves the state,
\* the queue, the tracker, the workspace and the user actions context as they
\* were.
C19_MainMenu ==
    [][last'.op = "_main_menu" =>
          IF TrackedSet(_files) = {}
          THEN /\ _current_state' = "PROMPT_AGENT"
               /\ last'.answer = ""
          ELSE /\ last'.answer \in {"1", "one"} => _current_state' = "PROMPT_AGENT"
               /\ last'.answer \in {"2", "two"} => _current_state' = "FILE_EDITS_MENU"
               /\ last'.answer \notin {"1", "one", "2", "two"} =>
                     /\ last'.answer # ""
                     /\ UNCHANGED << _current_state, _deque, _set, _files, disk,
                                     _user_actions_context, crashed >>]_vars

\* With a file tracked, the user has typed something that is no choice of the
\* main menu, and the menu is still current.
C19_Witness ==
    /\ last.op = "_main_menu"
    /\ last.answer = "3"
    /\ TrackedSet(_files) # {}
    /\ _current_state = "MAIN_MENU"

\* C20: in PROMPT_AGENT a message of the user that is not empty is sent to the
\* model and the calls of the reply join the queue behind those pending; the
\* next state is USE_TOOL when the queue is not empty and MAIN_MENU when it
\* is.  Empty input sends nothing, leaves the queue as it was and re-enters
\* PROMPT_AGENT.
C20_PromptAgent ==
    [][last'.op = "_prompt_agent" =>
          /\ last'.answer = "text" =>
                /\ Len(last'.sent) = 1
                /\ last'.sent[1].kind = "user"
                /\ IsPrefix(_deque, _deque')
                /\ _current_state' = IF _deque' # <<>> THEN "USE_TOOL" ELSE "MAIN_MENU"
          /\ last'.answer = "" =>
                /\ last'.sent = <<>>
                /\ UNCHANGED << _deque, _set >>
                /\ _current_state' = "PROMPT_AGENT"]_vars

\* The reply to a message of the user asked for two calls, and the drain is
\* next.
C20_Witness ==
    /\ last.op = "_prompt_agent"
    /\ last.answer = "text"
    /\ Len(_deque) = 2
    /\ _current_state = "USE_TOOL"

\* C21: END is terminal and is entered only from PROMPT_AGENT, on an interrupt
\* of the text entry: no step begins in END, and the step into END sends no
\* message and leaves the queue, the tracker, the workspace and the user
\* actions context as they were.
C21_EndIsTerminal ==
    [][/\ _current_state # "END"
       /\ _current_state' = "END" =>
             /\ _current_state = "PROMPT_AGENT"
             /\ last'.op = "_prompt_agent"
             /\ last'.answer = "KeyboardInterrupt"
             /\ last'.sent = <<>>
             /\ UNCHANGED << _files, disk, _deque, _set, _user_actions_context,
                             crashed >>]_vars

\* The user has interrupted the text entry while a file was tracked; the
\* session is over, with the file still tracked and its backup on disk.
C21_Witness ==
    /\ _current_state = "END"
    /\ TrackedSet(_files) = {"a"}
    /\ disk[".a.bak"].exists

\* The states of the file edits menu that act on the tracked files.
EditsStates ==
    {"SHOW_FILE_EDITS", "CONFIRM_EDITS_ALL", "REVERT_EDITS_ALL",
     "REVIEW_EDITS_FILE_BY_FILE"}

\* C23: FILE_EDITS_MENU with no tracked file goes to MAIN_MENU and reads no
\* input; the states that show, confirm, revert and review the edits are
\* entered with a tracked file only, so that the note of a revert of all files
\* names a path; input that is no choice of the menu changes nothing.
C23_FileEditsMenu ==
    [][/\ last'.op = "_file_edits_menu" =>
            IF TrackedSet(_files) = {}
            THEN /\ _current_state' = "MAIN_MENU"
                 /\ last'.answer = ""
            ELSE /\ last'.answer # ""
                 /\ _current_state' \in EditsStates \cup {"MAIN_MENU", "FILE_EDITS_MENU"}
                 /\ _current_state' = "FILE_EDITS_MENU" =>
                       /\ last'.answer \notin {"1", "2", "two", "3", "4", "5"}
                       /\ UNCHANGED << _deque, _set, _files, disk,
                                       _user_actions_context, crashed >>
       /\ ( /\ _current_state' \in EditsStates
            /\ _current_state' # _current_state ) =>
            /\ _current_state = "FILE_EDITS_MENU"
            /\ TrackedSet(_files') # {}
       /\ last'.op = "revert_all" /\ last'.exc = <<>> =>
            _user_actions_context'[Len(_user_actions_context')] # "Reverted edits to "]_vars

\* The file edits menu was entered after the last tracked file was settled,
\* and has led to the main menu.
C23_Witness ==
    /\ last.op = "_file_edits_menu"
    /\ last.answer = ""
    /\ TrackedSet(_files) = {}
    /\ _current_state = "MAIN_MENU"

\* C24: a step of CONFIRM_EDITS_ALL or REVERT_EDITS_ALL leaves no tracked file
\* and no backup; after the confirm every file that was tracked has the content
\* it had, after the revert the one it had when it became tracked (none, if
\* the session created it), and the note lists every path; the next state is
\* FILE_EDITS_MENU.
C24_ConfirmAllRevertAllSettleEveryFile ==
    [][last'.op \in {"confirm_all", "revert_all"} =>
          /\ TrackedSet(_files') = {}
          /\ \A p \in TrackedSet(_files) :
                /\ BackupOf(_files, p) # NoBackup =>
                      ~disk'[BackupOf(_files, p)].exists
                /\ disk'[p] = IF last'.op = "confirm_all" THEN disk[p]
                              ELSE orig[p][1]
          /\ last'.op = "revert_all" =>
                _user_actions_context' =
                   Append(_user_actions_context,
                          "Reverted edits to " \o join(", ", tracked_files(_files)))
          /\ _current_state' = "FILE_EDITS_MENU"]_vars

\* C25: in REVIEW_EDITS_FILE_BY_FILE a confirm or a revert leaves every other
\* tracked path with its entry, its backup and its content, and an ignore
\* changes nothing; the state is left for MAIN_MENU exactly when no file is
\* tracked any more, and for FILE_EDITS_MENU exactly when the exit index is
\* picked while a file is tracked.
C25_ReviewActsOnTheSelectedFile ==
    [][_current_state = "REVIEW_EDITS_FILE_BY_FILE" =>
          /\ last'.op \in {"confirm_file", "revert_file"} =>
                \A q \in TrackedSet(_files) \ {last'.path} :
                   /\ q \in TrackedSet(_files')
                   /\ BackupOf(_files', q) = BackupOf(_files, q)
                   /\ disk'[q] = disk[q]
                   /\ BackupOf(_files, q) # NoBackup =>
                         disk'[BackupOf(_files, q)] = disk[BackupOf(_files, q)]
          /\ last'.op = "_review_edits_file_by_file" =>
                UNCHANGED << _files, disk, _user_actions_context >>
          /\ _current_state' = "MAIN_MENU" <=> TrackedSet(_files) = {}
          /\ _current_state' = "FILE_EDITS_MENU" <=>
                /\ TrackedSet(_files) # {}
                /\ last'.op = "_review_edits_file_by_file"
                /\ last'.path = ""
                /\ last'.answer = ""
          /\ _current_state' \in
                {"REVIEW_EDITS_FILE_BY_FILE", "MAIN_MENU", "FILE_EDITS_MENU"}]_vars

\* The user's yes at the confirmation prompt of a tool.
Yes == [answer |-> "yes", proc |-> NoProc]

\* C27: for edit_file(p, old, new) on a file p, old not empty: old = new is a
\* validation error whatever the number of matches; otherwise one occurrence of
\* old in p is replaced by new and the call succeeds, none is the error "no
\* match", several are the error "found several times"; each of the errors
\* leaves the content of p as it was.
C27_ReplaceByNumberOfMatches ==
    \A p \in EditPaths, oldnew \in EditArgs :
        LET old == oldnew[1]
            new == oldnew[2]
            r == edit_file(Tracker, EditCall(p, old, new).args, Yes)
            n == count(disk[p].data, old)
        IN  old # <<>> /\ disk[p].exists =>
               /\ r.ret = <<"Success">> <=> r.exc = <<>>
               /\ r.exc # <<>> => r.disk[p] = disk[p]
               /\ IF old = new
                  THEN r.exc = Exc("ValueError", "new_str must be different from old_str")
                  ELSE IF n = 1
                  THEN /\ r.exc = <<>>
                       /\ r.disk[p] = File(replace(disk[p].data, old, new))
                  ELSE IF n = 0
                  THEN r.exc = Exc("ValueError", "no match for old_str in file " \o p)
                  ELSE r.exc = Exc("ValueError", "old_str found several times in file "
                                                 \o p \o ", must be unique")

\* The values of new_str of an append.
AppendArgs == { <<>>, <<"w">> }

\* C28: edit_file(p, "", new) succeeds for every new, on a path that is a file
\* and on one that is not: p is then a file that holds what it held, followed
\* by new.
C28_AppendIsUnconditional ==
    \A p \in EditPaths, new \in AppendArgs :
        LET r == edit_file(Tracker, EditCall(p, <<>>, new).args, Yes)
        IN  /\ r.exc = <<>>
            /\ r.ret = <<"Success">>
            /\ r.disk[p].exists
            /\ IsPrefix(disk[p].data, r.disk[p].data)
            /\ r.disk[p].data = disk[p].data \o new

\* C29: confirm_file of a path that is not tracked raises, and leaves the
\* tracker and the workspace as they were.
C29_ConfirmOfUntrackedPathIsAnError ==
    \A p \in EditPaths \ TrackedSet(_files) :
        LET r == confirm_file(Tracker, p)
        IN  /\ r.exc # <<>>
            /\ r.files = _files
            /\ r.disk = disk

\* C30: when the copy to the backup fails in track_file(p), the dict of the
\* tracker is what it was before the call, so that track_file(p) called again
\* does not take p for a tracked path.
C30_FailedBackupRegistersNothing ==
    \A p \in EditPaths :
        LET t == track_file(Tracker, p)
        IN  t.exc # <<>> =>
               /\ t.files = _files
               /\ p \notin TrackedSet(t.files)
               /\ track_file(t, p).ret # <<FALSE>>

\* An edit of the file a, which does not decode, has failed in track_file
\* after the backup was opened: the truncated backup is there and nothing is
\* tracked.
C30_Witness ==
    /\ last.op = "call_tool"
    /\ last.path = "a"
    /\ last.ran
    /\ last.envelope[1].error = <<"invalid start byte">>
    /\ disk[".a.bak"] = File(<<>>)
    /\ _files = <<>>

\* C22: every entry into USE_TOOL is followed by MAIN_MENU with an empty queue,
\* and USE_TOOL has no other successor: a step from USE_TOOL stays there or
\* goes to MAIN_MENU, the latter with nothing pending; the drain ends when the
\* user declines or the model stops requesting calls.
C22_DrainEndsInMainMenu ==
    /\ [][_current_state = "USE_TOOL" =>
             /\ ~crashed'
             /\ _current_state' \in {"USE_TOOL", "MAIN_MENU"}
             /\ _current_state' = "MAIN_MENU" => _deque' = <<>> /\ _set' = {}]_vars
    /\ (_current_state = "USE_TOOL") ~>
          (_current_state = "MAIN_MENU" /\ _deque = <<>> /\ _set = {})

\* A drain of more than one call has run to its end: the loop found the queue
\* empty after an edit, and the session is in the main menu.
C22_Witness ==
    /\ _current_state = "MAIN_MENU"
    /\ last = Step("_use_tool")
    /\ Len(_files) = 2
    /\ _deque = <<>>

\* C26: for an operation wrapped by spin or by spin_context, the thread of the
\* spinner has been started when the body runs, and when control is back
\* with the caller, after a body that returned or one that raised, the flag
\* is cleared and the thread has terminated: no thread of a spinner is alive
\* between two operations.
C26_SpinnerBracketsTheOperation ==
    /\ pc = "body" => _running /\ _thread \in Alive
    /\ pc = "idle" => ~_running /\ _thread \notin Alive
    /\ pc = "idle" /\ wrapped # <<>> =>
          /\ wrapped[1].outcome \in Outcomes
          /\ _thread = "done"

\* The body of an operation wrapped by spin_context has raised while the
\* spinner was writing frames; control is back with the caller.
C26_Witness ==
    /\ pc = "idle"
    /\ wrapped = <<[by |-> "spin_context", outcome |-> "raise"]>>
    /\ frames > 0
    /\ last.op = "join"

\* C31: a user message sent from PROMPT_AGENT holds at most 100 input lines:
\* the reading stops at the first empty line or after 100 lines that are not
\* empty, and the warning of the cap is printed exactly when 100 such lines
\* were read and no empty line was.
C31_AtMostHundredLines ==
    /\ Len(input_lines) <= MaxInputLines
    /\ \A i \in 1..Len(input_lines) : input_lines[i] # <<>>
    /\ reading = "break" => ~warned /\ Len(input_lines) < MaxInputLines
    /\ reading = "else" => warned /\ Len(input_lines) = MaxInputLines
    /\ reading = "loop" => ~warned
    /\ warned => Len(input_lines) = MaxInputLines
    /\ last.op = "_prompt_agent" /\ last.sent # <<>> =>
          /\ line_count(last.sent[1]) = Len(input_lines)
          /\ line_count(last.sent[1]) <= MaxInputLines
          /\ warned <=> Len(input_lines) = MaxInputLines

\* A message of 100 lines has gone to the model after the warning of the cap.
C31_Witness ==
    /\ last.op = "_prompt_agent"
    /\ last.sent # <<>>
    /\ line_count(last.sent[1]) = MaxInputLines
    /\ warned

\* The times call c is pending in the deque d.
Pending(d, c) == Cardinality({i \in 1..Len(d) : d[i] = c})

\* C32: pop releases the key of the call it returns, so that a reply to the
\* result of call c that requests c again puts c in the queue again, in the
\* same drain; whatever the reply, no call is pending twice.
C32_PoppedCallCanBeRequestedAgain ==
    Running("USE_TOOL") /\ ~empty(Queue) =>
        LET P == pop(Queue)
            c == P.call
        IN  /\ _hash_call(c) \notin P.set
            /\ Pending(P.deque, c) = 0
            /\ \A reply \in Replies(SessionCalls) :
                  LET Q == extend(P, reply)
                  IN  /\ \A d \in SessionCalls : Pending(Q.deque, d) <= 1
                      /\ Pending(reply, c) > 0 => Pending(Q.deque, c) = 1

\* C33: extend drops a call only when a pending call has its name and its
\* arguments: a call that differs from every pending call in its name or in
\* the value of an argument is appended, whatever the keys are.
C33_OnlyEqualCallsAreDropped ==
    \A c \in QueueCalls :
        LET Q == extend(Queue, <<c>>)
        IN  (\A i \in 1..Len(_deque) : ~SameCall(_deque[i], c)) =>
               /\ Q.deque = Append(_deque, c)
               /\ Q.set = _set \cup {_hash_call(c)}


\* C34: the call queue is empty in every state of the controller but USE_TOOL:
\* in the menus, in END, and in PROMPT_AGENT whenever it starts to read input.
\* Pending calls exist only from the model's reply to the end of the drain
\* that follows it.
C34_QueueEmptyOutsideTheDrain ==
    _current_state # "USE_TOOL" =>
        /\ _deque = <<>>
        /\ _set = {}

C34_Witness ==
    /\ last.op = "_use_tool"
    /\ last.answer = "no"
    /\ last.discarded # <<>>
    /\ _current_state = "MAIN_MENU"
    /\ _deque = <<>>
    /\ _set = {}
    /\ hashseed = {}


\* C35: whenever USE_TOOL sends the result of a tool to the model, the user
\* actions context is empty: the notes of the reverts of the menus were taken
\* by the message of the user sent in PROMPT_AGENT, so no context is ever put
\* before the list of a tool result.
C35_NoContextBeforeAToolResult ==
    /\ _current_state = "USE_TOOL" => _user_actions_context = <<>>
    /\ last.op = "_use_tool" =>
          /\ last.sent # <<>> => last.sent[1].context = <<>>
          /\ last.exc # <<Exc("TypeError", "can only concatenate")>>

C35_Witness ==
    /\ last.op = "_use_tool"
    /\ Len(last.sent) = 1
    /\ last.sent[1].kind = "tool"
    /\ last.sent[1].context = <<>>
    /\ TrackedSet(_files) # {}
    /\ _user_actions_context = <<>>


\* C36: a drain is cut short, the queue discarded and nothing sent for the
\* call, only when the user declined a confirmation prompt: a tool that ran
\* and failed is reported to the model and the calls behind it stay queued,
\* whatever the text of its failure.
C36_OnlyADeclineCutsTheDrain ==
    ( /\ last.op = "_use_tool"
      /\ last.call # <<>>
      /\ last.exc = <<>>
      /\ last.sent = <<>> ) =>
         /\ last.prompted
         /\ last.answer = "no"
         /\ ~last.ran


\* C37: call_tool reports the error of an unsupported tool only for a name
\* that the tool table does not hold: a failure met while a registered tool is
\* handled is never reported as "Function ... is not supported".
C37_UnsupportedOnlyForUnknownNames ==
    \A c \in DispatcherCalls, answer \in Answers :
    \A proc \in ProcsOf(c.name) :
       LET t == call_tool(Tracker, c.name, c.args,
                          [answer |-> answer, proc |-> proc])
       IN  t.envelope.error = <<"Function '" \o c.name \o "' is not supported">>
              => c.name \notin DOMAIN _tool_map


\* C38: track, confirm and revert of a path p change no file of the workspace
\* but p and the backup that the tracker made for p: tracking p leaves every
\* file that exists already as it is, a file with the name of p's backup
\* included, and a confirm or a revert of p leaves every other tracked file as
\* it is, one whose path is the backup path of p included.
C38_OnlyThePathAndItsOwnBackupChange ==
    \A p \in EditPaths :
        IF p \notin TrackedSet(_files)
        THEN LET t == track_file(Tracker, p)
             IN  \A q \in DiskPaths \ {p} :
                    disk[q].exists => t.disk[q] = disk[q]
        ELSE \A r \in {confirm_file(Tracker, p), revert_file(Tracker, p)} :
             \A q \in DiskPaths \ {p} :
                ( q # BackupOf(_files, p) \/ q \in TrackedSet(_files) )
                   => r.disk[q] = disk[q]


\* C39: when the user declines the prompt of an edit_file call, the tracker,
\* every backup and the target file are what they were before the call: the
\* prompt comes before track_file, so a declined edit registers nothing and
\* writes no backup.
C39_DeclinedEditChangesNothing ==
    [][( /\ last'.op = "call_tool"
         /\ last'.answer = "no" )
       => /\ last'.prompted
          /\ ~last'.ran
          /\ last'.envelope[1].error = <<"aborted">>
          /\ _files' = _files
          /\ disk' = disk
          /\ ~crashed']_vars

\* The edit of the file a, untracked and without a backup, was declined.
C39_Witness ==
    /\ last.op = "call_tool"
    /\ last.path = "a"
    /\ last.prompted
    /\ last.answer = "no"
    /\ disk["a"].exists
    /\ ~disk[".a.bak"].exists
    /\ _files = <<>>


\* C40: after confirm_file(p), the next successful edit of p tracks p anew
\* with a backup of the confirmed content, and a revert_file(p) after it gives
\* p the content it had when it was confirmed: a revert never undoes an edit
\* that was confirmed.
C40_RevertStopsAtTheConfirmation ==
    \A p \in TrackedSet(_files) :
        LET c == confirm_file(Tracker, p)
        IN  c.exc = <<>> =>
               \A oldnew \in EditArgs :
                  LET e == edit_file(c, EditCall(p, oldnew[1], oldnew[2]).args, Yes)
                  IN  e.exc = <<>> =>
                         /\ p \in TrackedSet(e.files)
                         /\ c.disk[p].exists =>
                               /\ BackupOf(e.files, p) # NoBackup
                               /\ e.disk[BackupOf(e.files, p)] = c.disk[p]
                         /\ LET r == revert_file(e, p)
                            IN  /\ r.exc = <<>>
                                /\ r.disk[p] = c.disk[p]

====
